---- MODULE Spec2Model ----
(***************************************************************************)
(* ProCache: a browser-resident reactive cache with cross-tab              *)
(* synchronisation.  The model covers the persistent store                 *)
(* (IndexedDBCache, db.ts), the cache manager (CacheManager, cache.ts),    *)
(* the fetch orchestrator (ProCacheClient.fetch, client.ts) and the        *)
(* coordinator with its invalidation engine (WebSocketClient, socket.ts).  *)
(***************************************************************************)
EXTENDS Integers, Sequences, FiniteSets, TLC

(* ------------------------------------------------------------------ *)
(* Bounds and finite input sets                                        *)
(* ------------------------------------------------------------------ *)
MaxTs == 2          \* server timestamps are drawn from 1..MaxTs
MaxNow == 2         \* the clock (Date.now()) runs over 0..MaxNow
MaxQueue == 1       \* a tab posts only while fewer than MaxQueue of its messages wait at a peer
MaxReq == 2         \* HTTP requests issued per run
MaxEpoch == 2       \* invalidations counted per bucket (ghost)
MaxClosing == 1     \* self-closed sockets per tab whose close event is still due
MaxTimers == 1      \* election timers pending per tab
MaxWaits == 2       \* election timers pending per tab when connect() is called again
MaxAttempts == 17   \* reconnect attempts counted per tab

Tabs == {"A", "B", "C"}
Buckets == {"X", "Y"}
Keys == {"k1"}
Data == {"a", "b"}
Callers == {"c1", "c2"}
Timestamps == 1..MaxTs
Ttls == {0, 1}

Undef == -1         \* JavaScript undefined in a numeric position
NoTs == 0           \* no timestamp stored for the bucket
NoTab == "none"

NoEntry == [data |-> "none", expiry |-> 0, timestamp |-> 0, ep |-> 0]
Entry(d, e, ts, ep) == [data |-> d, expiry |-> e, timestamp |-> ts, ep |-> ep]
EmptyBucket == [k \in Keys |-> NoEntry]
NoGet == [bucket |-> "none", key |-> "none", data |-> "none"]

VARIABLES
    \* Persistent store (IndexedDB, shared by every tab of the origin)
    psTs,            \* timestamps store: bucket -> timestamp or NoTs
    psCache,         \* cache store: bucket -> (key -> entry or NoEntry)
    \* Cache manager, per tab
    memHas,          \* buckets that are keys of the in-memory Map
    memEnt,          \* in-memory entries: tab -> bucket -> key -> entry
    setPending,      \* CM.set calls whose db.setCache has not completed yet
    got,             \* outcome of the tab's cache.get not yet consumed, or NoGet
    now,             \* Date.now()
    \* BroadcastChannel: messages in flight, per (sender, receiver)
    chan,
    \* Fetch orchestrator, per tab
    calls,           \* fetch() invocations: tab -> caller -> record
    reqs,            \* network requests (the async IIFE of fetch)
    pendingFetches,  \* tab -> key -> request id or 0
    nextId,
    configEnabled,   \* config.enabled !== false
    cacheWritesOffline, \* config.cacheWritesOffline === true
    \* Invalidation engine
    invEpoch,        \* ghost: invalidations applied per bucket
    notified,        \* ghost: tab -> bucket -> epoch its subscribers were told of
    globalFired,     \* ghost: runs of the global-invalidation callbacks after a purge, per tab
    \* Coordinator, per tab
    alive,
    isLeader,
    isExplicitlyClosed,
    isCacheEnabled,
    ws,              \* readyState of this.ws, or "null"
    closing,         \* sockets the tab closed itself whose close event is due
    synced,          \* ghost: a full sync was processed on the tab's connection
    disconnected,    \* ghost: disconnect() was called and connect() not since
    online,          \* navigator.onLine
    enableCacheBeforeSocket, \* config.startup.enableCacheBeforeSocket !== false
    \* Leader election
    lsLeader,        \* localStorage ws-leader-tab, or NoTab
    lsFresh,         \* the stored heartbeat is younger than LEADER_TIMEOUT
    lastLeaderHeartbeat, \* "zero", "fresh" or "stale" (older than LEADER_TIMEOUT)
    pendingLeaderCheck,
    electionTimers,  \* 150 ms timers of becomeLeader that have not fired
    leaderCheckInterval,
    followerCheckInterval,
    reconnectTimeout,
    reconnectAttempts,
    wsStatus,        \* the wsStatus signal, as the tab's own handlers set it
    netPending,      \* the online/offline event queued for the tab, or "none"
    offlineClosed,   \* ghost: the offline handler closed the leader's open socket
    lastSend,        \* ghost: what the tab's last send() did, and with which text
    waitForSocket,   \* config.ws.startup.waitForSocket
    startupWaitDone, \* ProCacheClient.startupWaitDone, per tab
    focused,         \* document.hasFocus(), per tab
    polls,           \* pollForCache runs in progress, per tab
    started,         \* ghost: notifications of subscribers begun, per tab
    cbFired          \* ghost: the runs of the subscribers' callbacks and their causes, per tab

psVars == <<psTs, psCache>>
cmVars == <<memHas, memEnt, setPending, got>>
fetchVars == <<calls, reqs, pendingFetches, nextId, configEnabled, cacheWritesOffline>>
ieVars == <<invEpoch, notified, globalFired>>
\* The configuration, and the state that only the network handlers touch.
pollVars == <<focused, polls, started, cbFired>>
sideVars == <<enableCacheBeforeSocket, netPending, offlineClosed, lastSend,
              waitForSocket, startupWaitDone, pollVars>>
coVars == <<alive, isLeader, isExplicitlyClosed, isCacheEnabled, ws, wsStatus, closing,
            synced, disconnected, online, sideVars>>
elVars == <<lsLeader, lsFresh, lastLeaderHeartbeat, pendingLeaderCheck,
            electionTimers, leaderCheckInterval, followerCheckInterval,
            reconnectTimeout, reconnectAttempts>>
vars == <<psVars, cmVars, now, chan, fetchVars, ieVars, coVars, elVars>>

\* What the coordinator's actions leave alone.
dataVars == <<psVars, cmVars, now, fetchVars, ieVars>>
envVars == <<alive, disconnected, online, sideVars, reconnectAttempts>>

(* ------------------------------------------------------------------ *)
(* Messages                                                            *)
(* ------------------------------------------------------------------ *)
Msg(type, bucket, key, ent) ==
    [type |-> type, bucket |-> bucket, key |-> key, ent |-> ent]

CacheSetMsg(b, k, item) == Msg("cache-set", b, k, item)
CacheInvalidateMsg(b) == Msg("cache-invalidate", b, "none", NoEntry)
WsInvalidateMsg(b, ep) == [type |-> "ws-invalidate", bucket |-> b, ep |-> ep]
WsInvalidateAllMsg(eps) == [type |-> "ws-invalidate-all", eps |-> eps]
WsCacheEnabledMsg(enabled, closed) ==
    [type |-> "ws-cache-enabled", enabled |-> enabled, explicitlyClosed |-> closed]
LeaderClaimMsg(t) == [type |-> "leader-claim", tabId |-> t]
LeaderQueryMsg == [type |-> "leader-query"]
NetworkMsg(kind) == [type |-> kind]
UpstreamMsg(p) == [type |-> "ws-upstream", payload |-> p]
NoSend == [outcome |-> "none", via |-> "none", text |-> ""]
LeaderStepdownMsg(t) == [type |-> "leader-stepdown", oldLeaderId |-> t]

Peers(t) == {r \in Tabs : r # t /\ alive[r]}

\* channel.postMessage(m1), ..., postMessage(mn) by tab t: every other live
\* tab of the origin receives the messages, in posting order.  The two
\* channels of a tab (pro-cache-sync, pro-cache-ws-sync) queue their message
\* events on one task source of the receiver, so one queue per pair of tabs
\* carries both.
CanPost(t) == \A r \in Peers(t) : Len(chan[t][r]) < MaxQueue

Posted(c, t, ms) ==
    [s \in Tabs |-> [r \in Tabs |->
        IF s = t /\ r \in Peers(t) THEN c[s][r] \o ms ELSE c[s][r]]]

(* ------------------------------------------------------------------ *)
(* Persistent store (IndexedDBCache)                                   *)
(* ------------------------------------------------------------------ *)

\* JavaScript a >= b on numbers where either side may be undefined.
GeJS(a, b) == a # Undef /\ b # Undef /\ a >= b

\* setTimestamp: latest wins, strictly greater replaces.
SetTimestampMutant(cur, ts) == ts
SetTimestamp(cur, ts) ==
    IF cur = NoTs \/ ts > cur THEN ts ELSE cur

\* setCache: the latest-wins test on one key of the bucket map.
SetCacheEntMutant(cur, item) == item
SetCacheEnt(cur, item) ==
    IF cur = NoEntry \/ GeJS(item.timestamp, cur.timestamp) THEN item ELSE cur

PSSetCache(pc, b, k, item) ==
    [pc EXCEPT ![b][k] = SetCacheEnt(pc[b][k], item)]

PSGetCache(pc, b, k) == pc[b][k]

PSDeleteCache(pc, b) == [pc EXCEPT ![b] = EmptyBucket]

PSClearCacheMutant == psCache
PSClearCache == [b \in Buckets |-> EmptyBucket]

PSClearTimestamps == [b \in Buckets |-> NoTs]

\* getAllBucketKeys: the buckets that have a record in the cache store.
PSAllBucketKeys(pc) == {b \in Buckets : \E k \in Keys : pc[b][k] # NoEntry}

(* ------------------------------------------------------------------ *)
(* Cache manager (CacheManager)                                        *)
(* ------------------------------------------------------------------ *)

\* setLocal: latest wins in memory.
SetLocalEntMutant(cur, item) == item
SetLocalEnt(cur, item) ==
    IF cur = NoEntry \/ GeJS(item.timestamp, cur.timestamp) THEN item ELSE cur

SetLocal(me, t, b, k, item) ==
    [me EXCEPT ![t][b][k] = SetLocalEnt(me[t][b][k], item)]

\* CM.set, up to the await of db.setCache: memory, then the store.
CMSetCall(t, b, k, d, ttl, ts, rid) ==
    /\ ttl > 0
    /\ Len(setPending[t]) < MaxQueue
    /\ LET item == Entry(d, now + ttl, ts, invEpoch[b]) IN
        /\ memEnt' = SetLocal(memEnt, t, b, k, item)
        /\ memHas' = [memHas EXCEPT ![t] = @ \cup {b}]
        /\ psCache' = PSSetCache(psCache, b, k, item)
        /\ setPending' = [setPending EXCEPT ![t] =
                Append(@, [bucket |-> b, key |-> k, item |-> item, rid |-> rid])]

\* CM.get: memory, then the store; an entry past its expiry is evicted.
GetItem(t, b, k) ==
    IF b \in memHas[t] /\ memEnt[t][b][k] # NoEntry
        THEN memEnt[t][b][k]
        ELSE PSGetCache(psCache, b, k)

GetHitMutant(t, b, k) == GetItem(t, b, k) # NoEntry
GetHit(t, b, k) == GetItem(t, b, k) # NoEntry /\ ~(now > GetItem(t, b, k).expiry)

GetResult(t, b, k) == IF GetHit(t, b, k) THEN GetItem(t, b, k) ELSE NoEntry

GetEffect(t, b, k) ==
    /\ memHas' = [memHas EXCEPT ![t] = @ \cup {b}]
    /\ memEnt' = [memEnt EXCEPT ![t][b][k] =
            IF GetHit(t, b, k) THEN GetItem(t, b, k) ELSE NoEntry]

\* invalidateLocal: the store is touched only if the bucket is in memory.
InvalidateLocalPS(t, b, pc) ==
    IF b \in memHas[t] THEN PSDeleteCache(pc, b) ELSE pc

(* ------------------------------------------------------------------ *)
(* Actions of the cache manager API                                    *)
(* ------------------------------------------------------------------ *)

\* cache.set(bucket, key, data, ttl, timestamp) called by the application.
CMSet(t, b, k, d, ttl, ts) ==
    /\ alive[t]
    /\ CMSetCall(t, b, k, d, ttl, ts, 0)
    /\ UNCHANGED <<psTs, got, now, chan, fetchVars, ieVars, coVars, elVars>>

\* db.setCache of a direct cache.set completes: the cache-set broadcast.
CMSetDone(t) ==
    /\ alive[t]
    /\ setPending[t] # <<>>
    /\ Head(setPending[t]).rid = 0
    /\ CanPost(t)
    /\ LET p == Head(setPending[t]) IN
        chan' = Posted(chan, t, <<CacheSetMsg(p.bucket, p.key, p.item)>>)
    /\ setPending' = [setPending EXCEPT ![t] = Tail(@)]
    /\ UNCHANGED <<psVars, memHas, memEnt, got, now, fetchVars, ieVars, coVars, elVars>>

\* cache.get(bucket, key) called by the application; a miss returns null.
CMGet(t, b, k) ==
    /\ alive[t]
    /\ got[t] = NoGet
    /\ GetEffect(t, b, k)
    /\ got' = [got EXCEPT ![t] = [bucket |-> b, key |-> k,
            data |-> IF GetHit(t, b, k) THEN GetResult(t, b, k).data ELSE "null"]]
    /\ UNCHANGED <<psVars, setPending, now, chan, fetchVars, ieVars, coVars, elVars>>

\* The application consumes the outcome of its cache.get.
CMGetReturn(t) ==
    /\ got[t] # NoGet
    /\ got' = [got EXCEPT ![t] = NoGet]
    /\ UNCHANGED <<psVars, memHas, memEnt, setPending, now, chan, fetchVars,
                   ieVars, coVars, elVars>>

\* cache.invalidate(bucket) called by the application: invalidateLocal, then
\* the cache-invalidate broadcast.
CMInvalidate(t, b) ==
    /\ alive[t]
    /\ CanPost(t)
    /\ memEnt' = [memEnt EXCEPT ![t][b] = EmptyBucket]
    /\ memHas' = [memHas EXCEPT ![t] = @ \ {b}]
    /\ psCache' = InvalidateLocalPS(t, b, psCache)
    /\ chan' = Posted(chan, t, <<CacheInvalidateMsg(b)>>)
    /\ UNCHANGED <<psTs, setPending, got, now, fetchVars, ieVars, coVars, elVars>>

\* What handleMessage posts on the channel for a cache-set or a
\* cache-invalidate: nothing.
HandleMessagePostsMutant(m) == <<m>>
HandleMessagePosts(m) == <<>>

\* handleMessage of the cache manager: cache-set and cache-invalidate.
CacheDeliver(s, r) ==
    /\ alive[r]
    /\ chan[s][r] # <<>>
    /\ LET m == Head(chan[s][r]) IN
        /\ m.type \in {"cache-set", "cache-invalidate"}
        /\ IF m.type = "cache-set"
            THEN /\ memEnt' = SetLocal(memEnt, r, m.bucket, m.key, m.ent)
                 /\ memHas' = [memHas EXCEPT ![r] = @ \cup {m.bucket}]
                 /\ UNCHANGED psCache
            ELSE /\ memEnt' = [memEnt EXCEPT ![r][m.bucket] = EmptyBucket]
                 /\ memHas' = [memHas EXCEPT ![r] = @ \ {m.bucket}]
                 /\ psCache' = InvalidateLocalPS(r, m.bucket, psCache)
        /\ chan' = Posted([chan EXCEPT ![s][r] = Tail(@)], r, HandleMessagePosts(m))
    /\ UNCHANGED <<psTs, setPending, got, now, fetchVars, ieVars, coVars, elVars>>

Tick ==
    /\ now < MaxNow
    /\ now' = now + 1
    /\ UNCHANGED <<psVars, cmVars, chan, fetchVars, ieVars, coVars, elVars>>

(* ------------------------------------------------------------------ *)
(* Fetch orchestrator (ProCacheClient.fetch)                           *)
(* ------------------------------------------------------------------ *)
IdleCall ==
    [pc |-> "idle", bucket |-> "X", key |-> "k1", ttl |-> 0, force |-> FALSE,
     ce |-> FALSE, rid |-> 0, res |-> "none", hitEp |-> 0, notif |-> 0]

Req(id, t, b, k, ttl, ce, direct) ==
    [id |-> id, tab |-> t, bucket |-> b, key |-> k, ttl |-> ttl, ce |-> ce,
     direct |-> direct, st |-> "http", data |-> "none", ts |-> 0]

ReqOf(id) == CHOOSE r \in reqs : r.id = id

\* The callers of tab t that await the promise of request id resolve with res.
Resolved(cs, t, id, res) ==
    [u \in Tabs |-> [c \in Callers |->
        IF u = t /\ cs[u][c].pc = "wait" /\ cs[u][c].rid = id
            THEN [cs[u][c] EXCEPT !.pc = "done", !.res = res]
            ELSE cs[u][c]]]

\* Step 2 of fetch: join the request registered for the key, if there is one.
JoinsPendingMutant(t, k) == FALSE
JoinsPending(t, k) == pendingFetches[t][k] # 0

\* fetch(route, params, query, cacheKeyOverride, force), up to its first await.
\* With config.enabled === false the call is a plain api.get(url).
\* Step 0 of fetch: the condition of the startup wait for the socket.
StartupWait(t) ==
    /\ waitForSocket
    /\ ~startupWaitDone[t]
    /\ ~isCacheEnabled[t]
    /\ wsStatus[t] # "connected"

\* fetch whose step 0 awaits socket.waitForConnection(timeout).
FetchCallWait(t, c, b, k, ttl, force) ==
    /\ alive[t]
    /\ calls[t][c].pc = "idle"
    /\ configEnabled
    /\ StartupWait(t)
    /\ calls' = [calls EXCEPT ![t][c] =
            [IdleCall EXCEPT !.pc = "sockwait", !.bucket = b, !.key = k,
                !.ttl = ttl, !.force = force, !.ce = isCacheEnabled[t],
                !.notif = notified[t][b]]]
    /\ UNCHANGED <<psVars, cmVars, now, chan, reqs, nextId, pendingFetches,
                   configEnabled, cacheWritesOffline, ieVars, coVars, elVars>>

\* waitForConnection resolves: true once a poll finds wsStatus 'connected',
\* false when the timeout fires.  fetch then sets startupWaitDone and reads
\* isCacheEnabled again only if it connected.
WaitForConnectionDone(t, c, connected) ==
    /\ alive[t]
    /\ calls[t][c].pc = "sockwait"
    /\ connected => wsStatus[t] = "connected"
    /\ startupWaitDone' = [startupWaitDone EXCEPT ![t] = TRUE]
    /\ calls' = [calls EXCEPT ![t][c].pc = "lookup",
                              ![t][c].ce = IF connected THEN isCacheEnabled[t] ELSE @]
    /\ UNCHANGED <<psVars, cmVars, now, chan, reqs, nextId, pendingFetches,
                   configEnabled, cacheWritesOffline, ieVars, alive, isLeader,
                   isExplicitlyClosed, isCacheEnabled, ws, wsStatus, closing, synced,
                   disconnected, online, enableCacheBeforeSocket, netPending,
                   offlineClosed, lastSend, waitForSocket, pollVars, elVars>>

FetchCall(t, c, b, k, ttl, force) ==
    /\ alive[t]
    /\ calls[t][c].pc = "idle"
    /\ ~(configEnabled /\ StartupWait(t))
    /\ IF configEnabled
        THEN /\ calls' = [calls EXCEPT ![t][c] =
                    [IdleCall EXCEPT !.pc = "lookup", !.bucket = b, !.key = k,
                        !.ttl = ttl, !.force = force, !.ce = isCacheEnabled[t],
                        !.notif = notified[t][b]]]
             /\ UNCHANGED <<reqs, nextId>>
        ELSE /\ nextId <= MaxReq
             /\ reqs' = reqs \cup {Req(nextId, t, b, k, ttl, FALSE, TRUE)}
             /\ nextId' = nextId + 1
             /\ calls' = [calls EXCEPT ![t][c] =
                    [IdleCall EXCEPT !.pc = "wait", !.bucket = b, !.key = k,
                        !.ttl = ttl, !.force = force, !.rid = nextId]]
    /\ UNCHANGED <<psVars, cmVars, now, chan, pendingFetches, configEnabled,
                   cacheWritesOffline, ieVars, coVars, elVars>>

\* Step 1 of fetch reads the cache: if (!force && cachingEnabled && ttl > 0).
ReadsCacheMutant(call) == call.ce /\ call.ttl > 0
ReadsCache(call) == ~call.force /\ call.ce /\ call.ttl > 0

\* The promise of the async function of step 3 when api.get throws before
\* anything is awaited: the finally block has already run, and the rejected
\* promise is what pendingFetches.set then stores.
Rejected(r) == [r EXCEPT !.st = "rejected"]

\* Steps 1 to 3 of fetch: the cache lookup, then the pending request of the
\* key or a new network request, registered in pendingFetches.  With throws,
\* the call of api.get raises synchronously.
FetchLookupWith(t, c, throws) ==
    LET call == calls[t][c]
        b == call.bucket
        k == call.key
        reads == ReadsCache(call)
    IN
    /\ alive[t]
    /\ call.pc = "lookup"
    /\ throws => ~(reads /\ GetHit(t, b, k)) /\ ~JoinsPending(t, k)
    /\ IF reads THEN GetEffect(t, b, k) ELSE UNCHANGED <<memHas, memEnt>>
    /\ IF reads /\ GetHit(t, b, k)
        THEN /\ calls' = [calls EXCEPT ![t][c] =
                    [call EXCEPT !.pc = "done", !.res = GetResult(t, b, k).data,
                                 !.hitEp = GetResult(t, b, k).ep]]
             /\ UNCHANGED <<reqs, pendingFetches, nextId>>
        ELSE IF JoinsPending(t, k)
        THEN /\ calls' = [calls EXCEPT ![t][c] =
                    [call EXCEPT !.pc = "wait", !.rid = pendingFetches[t][k]]]
             /\ UNCHANGED <<reqs, pendingFetches, nextId>>
        ELSE /\ nextId <= MaxReq
             /\ reqs' = reqs \cup
                    {IF throws THEN Rejected(Req(nextId, t, b, k, call.ttl, call.ce, FALSE))
                               ELSE Req(nextId, t, b, k, call.ttl, call.ce, FALSE)}
             /\ pendingFetches' = [pendingFetches EXCEPT ![t][k] = nextId]
             /\ nextId' = nextId + 1
             /\ calls' = [calls EXCEPT ![t][c] =
                    IF throws THEN [call EXCEPT !.pc = "done", !.res = "error"]
                              ELSE [call EXCEPT !.pc = "wait", !.rid = nextId]]
    /\ UNCHANGED <<psVars, setPending, got, now, chan, configEnabled,
                   cacheWritesOffline, ieVars, coVars, elVars>>

FetchLookup(t, c) == FetchLookupWith(t, c, FALSE)

\* Step 3 of fetch where api.get(url) throws before the request is awaited.
FetchLookupThrows(t, c) == FetchLookupWith(t, c, TRUE)

\* A caller that joined a promise which had already rejected.
AwaitRejected(t, c) ==
    /\ alive[t]
    /\ calls[t][c].pc = "wait"
    /\ \E r \in reqs : r.id = calls[t][c].rid /\ r.st = "rejected"
    /\ calls' = [calls EXCEPT ![t][c] = [@ EXCEPT !.pc = "done", !.res = "error"]]
    /\ UNCHANGED <<psVars, cmVars, now, chan, reqs, pendingFetches, nextId,
                   configEnabled, cacheWritesOffline, ieVars, coVars, elVars>>

ShouldCache(r) == r.ce \/ (cacheWritesOffline /\ r.ttl > 0)

\* finally { pendingFetches.delete(specificKey) } and the promise settles.
SettleMutant(r, res) ==
    /\ reqs' = reqs \ {r}
    /\ pendingFetches' = pendingFetches
    /\ calls' = Resolved(calls, r.tab, r.id, res)
Settle(r, res) ==
    /\ reqs' = reqs \ {r}
    /\ pendingFetches' = IF r.direct THEN pendingFetches
                         ELSE [pendingFetches EXCEPT ![r.tab][r.key] = 0]
    /\ calls' = Resolved(calls, r.tab, r.id, res)

\* The HTTP GET succeeds with data d and server timestamp ts (getTimestamp):
\* db.setTimestamp(routePattern, ts) is issued when the result is to be cached.
HttpOk(id, d, ts) ==
    /\ \E r \in reqs : r.id = id /\ r.st = "http"
    /\ LET r == ReqOf(id) IN
        /\ alive[r.tab]
        /\ IF ~r.direct /\ ShouldCache(r)
            THEN /\ psTs' = [psTs EXCEPT ![r.bucket] = SetTimestamp(@, ts)]
                 /\ reqs' = (reqs \ {r}) \cup
                        {[r EXCEPT !.st = "tsWrite", !.data = d, !.ts = ts]}
                 /\ UNCHANGED <<pendingFetches, calls>>
            ELSE /\ Settle(r, d)
                 /\ UNCHANGED psTs
    /\ UNCHANGED <<psCache, cmVars, now, chan, nextId, configEnabled,
                   cacheWritesOffline, ieVars, coVars, elVars>>

\* The HTTP GET fails: the error propagates to every awaiting caller.
HttpFail(id) ==
    /\ \E r \in reqs : r.id = id /\ r.st = "http"
    /\ LET r == ReqOf(id) IN
        /\ alive[r.tab]
        /\ Settle(r, "error")
    /\ UNCHANGED <<psVars, cmVars, now, chan, nextId, configEnabled,
                   cacheWritesOffline, ieVars, coVars, elVars>>

\* db.setTimestamp completed: cache.set(routePattern, specificKey, data, ttl)
\* is called without a timestamp argument.
TsWriteDone(id) ==
    /\ \E r \in reqs : r.id = id /\ r.st = "tsWrite"
    /\ LET r == ReqOf(id) IN
        /\ alive[r.tab]
        /\ IF r.ttl > 0
            THEN /\ CMSetCall(r.tab, r.bucket, r.key, r.data, r.ttl, Undef, id)
                 /\ reqs' = (reqs \ {r}) \cup {[r EXCEPT !.st = "cacheWrite"]}
                 /\ UNCHANGED <<pendingFetches, calls>>
            ELSE /\ Settle(r, r.data)
                 /\ UNCHANGED <<psCache, memHas, memEnt, setPending>>
    /\ UNCHANGED <<psTs, got, now, chan, nextId, configEnabled,
                   cacheWritesOffline, ieVars, coVars, elVars>>

\* db.setCache of the write-back completed: cache.set broadcasts cache-set
\* and the fetch returns the data.
CacheWriteDone(id) ==
    /\ \E r \in reqs : r.id = id /\ r.st = "cacheWrite"
    /\ LET r == ReqOf(id)
           p == Head(setPending[r.tab]) IN
        /\ alive[r.tab]
        /\ setPending[r.tab] # <<>>
        /\ p.rid = id
        /\ CanPost(r.tab)
        /\ chan' = Posted(chan, r.tab, <<CacheSetMsg(p.bucket, p.key, p.item)>>)
        /\ setPending' = [setPending EXCEPT ![r.tab] = Tail(@)]
        /\ Settle(r, r.data)
    /\ UNCHANGED <<psVars, memHas, memEnt, got, now, nextId, configEnabled,
                   cacheWritesOffline, ieVars, coVars, elVars>>

\* The caller consumes the settled promise.
FetchReturn(t, c) ==
    /\ calls[t][c].pc = "done"
    /\ calls' = [calls EXCEPT ![t][c] = IdleCall]
    /\ UNCHANGED <<psVars, cmVars, now, chan, reqs, pendingFetches, nextId,
                   configEnabled, cacheWritesOffline, ieVars, coVars, elVars>>

(* ------------------------------------------------------------------ *)
(* Invalidation engine (WebSocketClient.defaultMessageHandler)         *)
(* ------------------------------------------------------------------ *)
BucketOrder == <<"X", "Y">>

\* A full-sync payload: timestamps for a set of buckets.
SyncData == UNION {[S -> Timestamps] : S \in SUBSET Buckets}

\* The messages of invalidateAndNotify for the buckets of inv, in the order
\* of the payload: cache-invalidate (CacheManager.invalidate), ws-invalidate.
RECURSIVE InvalidateMsgs(_, _, _)
InvalidateMsgs(i, inv, eps) ==
    IF i > Len(BucketOrder) THEN <<>>
    ELSE LET b == BucketOrder[i] IN
        (IF b \in inv
            THEN <<CacheInvalidateMsg(b), WsInvalidateMsg(b, eps[b])>>
            ELSE <<>>) \o InvalidateMsgs(i + 1, inv, eps)

\* Full sync, step 1: the server's buckets that are invalidated.
ShouldUpdate(b, ts) == ~(psTs[b] # NoTs /\ psTs[b] >= ts)

SyncUpdates(data) == {b \in DOMAIN data : ShouldUpdate(b, data[b])}

\* The store after invalidateLocal ran in tab t for the buckets of inv.
InvalidatedPSMutant(t, pc, inv) == [b \in Buckets |-> pc[b]]
InvalidatedPS(t, pc, inv) ==
    [b \in Buckets |-> IF b \in inv /\ b \in memHas[t] THEN EmptyBucket ELSE pc[b]]

\* Full sync, step 2: the buckets of the store that the server does not list.
SyncDeletions(t, data) ==
    PSAllBucketKeys(InvalidatedPS(t, psCache, SyncUpdates(data))) \ DOMAIN data

\* invalidateAndNotify for every bucket of inv: memory, store, subscribers.
InvalidateAndNotify(t, inv) ==
    /\ \A b \in inv : invEpoch[b] < MaxEpoch
    /\ invEpoch' = [b \in Buckets |-> IF b \in inv THEN invEpoch[b] + 1 ELSE invEpoch[b]]
    /\ memEnt' = [memEnt EXCEPT ![t] =
            [b \in Buckets |-> IF b \in inv THEN EmptyBucket ELSE memEnt[t][b]]]
    /\ memHas' = [memHas EXCEPT ![t] = @ \ inv]
    /\ psCache' = InvalidatedPS(t, psCache, inv)
    /\ notified' = [notified EXCEPT ![t] =
            [b \in Buckets |-> IF b \in inv THEN invEpoch[b] + 1 ELSE notified[t][b]]]
    /\ UNCHANGED globalFired

\* updateCacheEnabled(true) unless the tab is explicitly closed.
EnablesCache(t) == ~isExplicitlyClosed[t]

\* A full-sync message { type: 'invalidate', data } with a non-empty payload
\* arrives on the open socket of tab t.
FullSync(t, data) ==
    /\ alive[t]
    /\ ws[t] = "OPEN"
    /\ DOMAIN data # {}
    /\ CanPost(t)
    /\ LET inv == SyncUpdates(data) \cup SyncDeletions(t, data) IN
        /\ InvalidateAndNotify(t, inv)
        /\ chan' = Posted(chan, t,
                InvalidateMsgs(1, inv, invEpoch') \o
                (IF EnablesCache(t) THEN <<WsCacheEnabledMsg(TRUE, FALSE)>> ELSE <<>>))
    /\ isCacheEnabled' = [isCacheEnabled EXCEPT ![t] = @ \/ EnablesCache(t)]
    /\ synced' = [synced EXCEPT ![t] = TRUE]
    /\ UNCHANGED <<psTs, setPending, got, now, fetchVars, alive, isLeader,
                   isExplicitlyClosed, ws, wsStatus, closing, disconnected, online,
                   sideVars, elVars>>

\* A full-sync message with an empty payload: cacheManager.clear(),
\* db.clearAll(), ws-invalidate-all, the global callbacks.
FullSyncEmpty(t) ==
    /\ alive[t]
    /\ ws[t] = "OPEN"
    /\ CanPost(t)
    /\ \A b \in Buckets : invEpoch[b] < MaxEpoch
    /\ invEpoch' = [b \in Buckets |-> invEpoch[b] + 1]
    /\ memEnt' = [memEnt EXCEPT ![t] = [b \in Buckets |-> EmptyBucket]]
    /\ memHas' = [memHas EXCEPT ![t] = {}]
    /\ psCache' = PSClearCache
    /\ psTs' = PSClearTimestamps
    /\ notified' = [notified EXCEPT ![t] = invEpoch']
    /\ globalFired' = [globalFired EXCEPT ![t] = @ + 1]
    /\ chan' = Posted(chan, t, <<WsInvalidateAllMsg(invEpoch')>> \o
            (IF EnablesCache(t) THEN <<WsCacheEnabledMsg(TRUE, FALSE)>> ELSE <<>>))
    /\ isCacheEnabled' = [isCacheEnabled EXCEPT ![t] = @ \/ EnablesCache(t)]
    /\ synced' = [synced EXCEPT ![t] = TRUE]
    /\ UNCHANGED <<setPending, got, now, fetchVars, alive, isLeader,
                   isExplicitlyClosed, ws, wsStatus, closing, disconnected, online,
                   sideVars, elVars>>

\* The buckets a delta { b: ts } passes to invalidateAndNotify: its entries;
\* unlike a full sync it has no pass over the buckets of the store.
DeltaInvalidatesMutant(t, b) == {b} \cup PSAllBucketKeys(psCache)
DeltaInvalidates(t, b) == {b}

\* A delta message { type: 'invalidate-delta', data: { b: ts } }.
Delta(t, b) ==
    /\ alive[t]
    /\ ws[t] = "OPEN"
    /\ CanPost(t)
    /\ InvalidateAndNotify(t, DeltaInvalidates(t, b))
    /\ chan' = Posted(chan, t, InvalidateMsgs(1, DeltaInvalidates(t, b), invEpoch'))
    /\ UNCHANGED <<psTs, setPending, got, now, fetchVars, coVars, elVars>>

\* handleBroadcast, ws-invalidate: a follower triggers its subscribers and
\* leaves its cache alone.
DeliverWsInvalidate(s, r) ==
    /\ alive[r]
    /\ chan[s][r] # <<>>
    /\ Head(chan[s][r]).type = "ws-invalidate"
    /\ LET m == Head(chan[s][r]) IN
        notified' = IF isLeader[r] THEN notified
                    ELSE [notified EXCEPT ![r][m.bucket] = m.ep]
    /\ chan' = [chan EXCEPT ![s][r] = Tail(@)]
    /\ UNCHANGED <<psVars, cmVars, now, fetchVars, invEpoch, globalFired, coVars, elVars>>

\* handleBroadcast, ws-invalidate-all: a follower runs cacheManager.clear()
\* (memory and the cache store) and triggers every subscriber.
DeliverWsInvalidateAll(s, r) ==
    /\ alive[r]
    /\ chan[s][r] # <<>>
    /\ Head(chan[s][r]).type = "ws-invalidate-all"
    /\ IF isLeader[r]
        THEN UNCHANGED <<memEnt, memHas, psCache, notified, globalFired>>
        ELSE /\ memEnt' = [memEnt EXCEPT ![r] = [b \in Buckets |-> EmptyBucket]]
             /\ memHas' = [memHas EXCEPT ![r] = {}]
             /\ psCache' = PSClearCache
             /\ notified' = [notified EXCEPT ![r] = Head(chan[s][r]).eps]
             /\ globalFired' = [globalFired EXCEPT ![r] = @ + 1]
    /\ chan' = [chan EXCEPT ![s][r] = Tail(@)]
    /\ UNCHANGED <<psTs, setPending, got, now, fetchVars, invEpoch, coVars, elVars>>

(* ------------------------------------------------------------------ *)
(* Coordinator: the upstream socket (WebSocketClient)                  *)
(* ------------------------------------------------------------------ *)
Bump(n) == IF n < MaxClosing THEN n + 1 ELSE n

\* The tab's socket fields, as one record that the handlers transform.
Sock(t) ==
    [ws |-> ws[t], closing |-> closing[t], timeout |-> reconnectTimeout[t],
     synced |-> synced[t], status |-> wsStatus[t]]

\* connectWebSocket with isExplicitlyClosed = expl and isLeader = lead.
ConnectWebSocket(k, expl, lead) ==
    IF expl \/ ~lead \/ k.ws \in {"OPEN", "CONNECTING"} THEN k
    ELSE [k EXCEPT !.ws = "CONNECTING", !.timeout = 0, !.synced = FALSE,
                   !.status = "connecting"]

\* disconnectWebSocket: ws.close() leaves the handlers attached, so the close
\* event of a socket that was not closed yet still reaches onclose.
DisconnectWebSocketMutant(k) == k
DisconnectWebSocket(k) ==
    [k EXCEPT !.ws = "null", !.timeout = 0, !.synced = FALSE,
              !.closing = IF k.ws \in {"OPEN", "CONNECTING"} THEN Bump(@) ELSE @]

SetSock(t, k) ==
    /\ ws' = [ws EXCEPT ![t] = k.ws]
    /\ closing' = [closing EXCEPT ![t] = k.closing]
    /\ reconnectTimeout' = [reconnectTimeout EXCEPT ![t] = k.timeout]
    /\ synced' = [synced EXCEPT ![t] = k.synced]
    /\ wsStatus' = [wsStatus EXCEPT ![t] = k.status]

\* Progressive delay of scheduleReconnect.
ReconnectDelayMutant(attempts) == 5000 + (attempts \div 4) * 5000
ReconnectDelay(attempts) ==
    LET d == 5000 + (attempts \div 4) * 5000 IN IF d < 20000 THEN d ELSE 20000

\* scheduleReconnect goes past its guards; ce is isCacheEnabled() at the call.
Schedules(t, ce) ==
    /\ ~(isExplicitlyClosed[t] \/ ~ce \/ ~isLeader[t])
    /\ online

\* The tail of onclose: if (!isExplicitlyClosed && isLeader) scheduleReconnect(),
\* called right after setIsCacheEnabled(false).
ReconnectsOnCloseMutant(t) == TRUE
ReconnectsOnClose(t) ==
    ~isExplicitlyClosed[t] /\ isLeader[t] /\ Schedules(t, FALSE)

\* The body of ws.onclose (after ws.onerror, in the same task, when the
\* connection failed): caching off, ws-cache-enabled broadcast, reconnect.
OnCloseBody(t) ==
    /\ CanPost(t)
    /\ wsStatus' = [wsStatus EXCEPT ![t] = "disconnected"]
    /\ isCacheEnabled' = [isCacheEnabled EXCEPT ![t] = FALSE]
    /\ chan' = Posted(chan, t, <<WsCacheEnabledMsg(FALSE, isExplicitlyClosed[t])>>)
    /\ IF ReconnectsOnClose(t)
        THEN /\ reconnectTimeout' = [reconnectTimeout EXCEPT ![t] =
                    ReconnectDelay(reconnectAttempts[t])]
             /\ reconnectAttempts' = [reconnectAttempts EXCEPT ![t] = @ + 1]
        ELSE UNCHANGED <<reconnectTimeout, reconnectAttempts>>

\* isCacheEnabled() once onopen has run: the handler does not touch it.
CacheEnabledOnOpenMutant(t) == TRUE
CacheEnabledOnOpen(t) == isCacheEnabled[t]

\* ws.onopen.
OnOpen(t) ==
    /\ alive[t]
    /\ ws[t] = "CONNECTING"
    /\ online
    /\ ws' = [ws EXCEPT ![t] = "OPEN"]
    /\ wsStatus' = [wsStatus EXCEPT ![t] = "connected"]
    /\ reconnectAttempts' = [reconnectAttempts EXCEPT ![t] = 0]
    /\ isCacheEnabled' = [isCacheEnabled EXCEPT ![t] = CacheEnabledOnOpen(t)]
    /\ UNCHANGED <<psVars, cmVars, now, chan, fetchVars, ieVars, alive, isLeader,
                   isExplicitlyClosed, closing, synced,
                   disconnected, online, sideVars, lsLeader,
                   lsFresh, lastLeaderHeartbeat, pendingLeaderCheck,
                   electionTimers, leaderCheckInterval, followerCheckInterval,
                   reconnectTimeout>>

\* The server or the network closes the socket of this.ws, or the connection
\* attempt fails.
OnClose(t) ==
    /\ alive[t]
    /\ ws[t] \in {"CONNECTING", "OPEN"}
    /\ ws' = [ws EXCEPT ![t] = "CLOSED"]
    /\ synced' = [synced EXCEPT ![t] = FALSE]
    /\ OnCloseBody(t)
    /\ UNCHANGED <<psVars, cmVars, now, fetchVars, ieVars, alive, isLeader,
                   isExplicitlyClosed, closing, disconnected, online,
                   sideVars, lsLeader, lsFresh,
                   lastLeaderHeartbeat, pendingLeaderCheck, electionTimers,
                   leaderCheckInterval, followerCheckInterval>>

\* The close event of a socket that the tab closed itself.
OnCloseStale(t) ==
    /\ alive[t]
    /\ closing[t] > 0
    /\ closing' = [closing EXCEPT ![t] = @ - 1]
    /\ OnCloseBody(t)
    /\ UNCHANGED <<psVars, cmVars, now, fetchVars, ieVars, alive, isLeader,
                   isExplicitlyClosed, ws, synced, disconnected, online,
                   sideVars, lsLeader, lsFresh,
                   lastLeaderHeartbeat, pendingLeaderCheck, electionTimers,
                   leaderCheckInterval, followerCheckInterval>>

\* The reconnect timer fires.
ReconnectFire(t) ==
    /\ alive[t]
    /\ reconnectTimeout[t] > 0
    /\ SetSock(t, IF isLeader[t] /\ online
                    THEN ConnectWebSocket([Sock(t) EXCEPT !.timeout = 0],
                                          isExplicitlyClosed[t], isLeader[t])
                    ELSE [Sock(t) EXCEPT !.timeout = 0])
    /\ UNCHANGED <<psVars, cmVars, now, chan, fetchVars, ieVars, alive, isLeader,
                   isExplicitlyClosed, isCacheEnabled, disconnected, online,
                   sideVars, lsLeader, lsFresh,
                   lastLeaderHeartbeat, pendingLeaderCheck, electionTimers,
                   leaderCheckInterval, followerCheckInterval, reconnectAttempts>>

\* scheduleReconnect, called with the tab's fields as they are.
ScheduleReconnect(t) ==
    /\ alive[t]
    /\ reconnectAttempts[t] < MaxAttempts
    /\ IF Schedules(t, isCacheEnabled[t])
        THEN /\ reconnectTimeout' = [reconnectTimeout EXCEPT ![t] =
                    ReconnectDelay(reconnectAttempts[t])]
             /\ reconnectAttempts' = [reconnectAttempts EXCEPT ![t] = @ + 1]
        ELSE UNCHANGED <<reconnectTimeout, reconnectAttempts>>
    /\ UNCHANGED <<psVars, cmVars, now, chan, fetchVars, ieVars, alive, isLeader,
                   isExplicitlyClosed, isCacheEnabled, disconnected, online,
                   sideVars, lsLeader, lsFresh, ws, wsStatus, closing, synced,
                   lastLeaderHeartbeat, pendingLeaderCheck, electionTimers,
                   leaderCheckInterval, followerCheckInterval>>

(* ------------------------------------------------------------------ *)
(* Coordinator: leader election                                        *)
(* ------------------------------------------------------------------ *)

\* One election wait of becomeLeader: the 150 ms timer and the promise it
\* returned: whether connect() awaits the promise, and whether it is resolved.
NewWait == [awaited |-> FALSE, resolved |-> FALSE]

\* The tab's election fields, as one record; timers holds the pending election
\* waits, oldest first, which is the order in which their timers fire.
Elec(t) ==
    [isLeader |-> isLeader[t], hb |-> lastLeaderHeartbeat[t],
     pending |-> pendingLeaderCheck[t], timers |-> electionTimers[t],
     lci |-> leaderCheckInterval[t], fci |-> followerCheckInterval[t]]

SetElec(t, e) ==
    /\ isLeader' = [isLeader EXCEPT ![t] = e.isLeader]
    /\ lastLeaderHeartbeat' = [lastLeaderHeartbeat EXCEPT ![t] = e.hb]
    /\ pendingLeaderCheck' = [pendingLeaderCheck EXCEPT ![t] = e.pending]
    /\ electionTimers' = [electionTimers EXCEPT ![t] = e.timers]
    /\ leaderCheckInterval' = [leaderCheckInterval EXCEPT ![t] = e.lci]
    /\ followerCheckInterval' = [followerCheckInterval EXCEPT ![t] = e.fci]

\* localStorage names a recent leader other than tab t.
StoredLeaderMutant(t) == FALSE
StoredLeader(t) == lsLeader # NoTab /\ lsLeader # t /\ lsFresh

\* becomeLeader: nothing for a leader; instant follower if localStorage names
\* a recent leader; else a leader-query and the 150 ms election timer.
BecomeLeaderMutant(t, e) ==
    IF e.isLeader THEN e ELSE [e EXCEPT !.hb = "fresh", !.fci = TRUE]
BecomeLeader(t, e) ==
    IF e.isLeader THEN e
    ELSE IF StoredLeader(t) THEN [e EXCEPT !.hb = "fresh", !.fci = TRUE]
    ELSE [e EXCEPT !.pending = TRUE, !.timers = Append(@, NewWait)]

\* await this.becomeLeader() in connect(): the caller waits for the promise
\* of the election wait that this call has started, if it started one.
Awaited(e0, e1) ==
    IF Len(e1.timers) > Len(e0.timers)
    THEN [e1 EXCEPT !.timers[Len(e1.timers)].awaited = TRUE]
    ELSE e1

\* leaderCheckResolve?.(): the resolver stored last, which belongs to the
\* election wait started last.
ResolveLast(e) ==
    IF e.timers = <<>> THEN e
    ELSE [e EXCEPT !.timers[Len(e.timers)].resolved = TRUE]

BecomeLeaderMsgs(e) == IF e.isLeader THEN <<>> ELSE <<LeaderQueryMsg>>

\* becomeLeader can start its timer.
TimerFreeUpTo(t, e, n) == e.isLeader \/ StoredLeader(t) \/ Len(e.timers) < n
TimerFree(t, e) == TimerFreeUpTo(t, e, MaxTimers)

\* clearLeaderStorage: only the tab named in the slot clears it.
ClearLeaderStorage(t) ==
    /\ lsLeader' = IF lsLeader = t THEN NoTab ELSE lsLeader
    /\ lsFresh' = IF lsLeader = t THEN FALSE ELSE lsFresh

\* stepDown, the election fields.
StepDownMutant(e) == [e EXCEPT !.isLeader = FALSE]
StepDown(e) == [e EXCEPT !.isLeader = FALSE, !.lci = FALSE]

\* The 150 ms timer of becomeLeader fires.
ElectionTimeout(t) ==
    /\ alive[t]
    /\ electionTimers[t] # <<>>
    /\ CanPost(t)
    /\ LET e == [Elec(t) EXCEPT !.timers = Tail(@)] IN
        IF ~e.pending
        THEN /\ SetElec(t, e)
             /\ UNCHANGED <<chan, lsLeader, lsFresh, ws, wsStatus, closing, reconnectTimeout, synced>>
        ELSE IF StoredLeader(t)
        THEN /\ SetElec(t, [e EXCEPT !.pending = FALSE, !.hb = "fresh", !.fci = TRUE])
             /\ UNCHANGED <<chan, lsLeader, lsFresh, ws, wsStatus, closing, reconnectTimeout, synced>>
        ELSE /\ SetElec(t, [e EXCEPT !.pending = FALSE, !.isLeader = TRUE,
                                     !.fci = FALSE, !.lci = TRUE])
             /\ lsLeader' = t
             /\ lsFresh' = TRUE
             /\ chan' = Posted(chan, t, <<LeaderClaimMsg(t)>>)
             /\ SetSock(t, ConnectWebSocket(Sock(t), isExplicitlyClosed[t], TRUE))
    /\ UNCHANGED <<dataVars, envVars, isExplicitlyClosed, isCacheEnabled>>

\* The leader's 2 s interval: leader-claim and updateLeaderStorage.
LeaderPing(t) ==
    /\ alive[t]
    /\ leaderCheckInterval[t]
    /\ isLeader[t]
    /\ CanPost(t)
    /\ chan' = Posted(chan, t, <<LeaderClaimMsg(t)>>)
    /\ lsLeader' = t
    /\ lsFresh' = TRUE
    /\ UNCHANGED <<dataVars, coVars, lastLeaderHeartbeat, pendingLeaderCheck,
                   electionTimers, leaderCheckInterval, followerCheckInterval,
                   reconnectTimeout, reconnectAttempts>>

\* The follower's 2 s interval: leader-query, and an election once the last
\* heartbeat is older than LEADER_TIMEOUT.
FollowerCheck(t) ==
    /\ alive[t]
    /\ followerCheckInterval[t]
    /\ IF isLeader[t]
        THEN /\ followerCheckInterval' = [followerCheckInterval EXCEPT ![t] = FALSE]
             /\ UNCHANGED <<chan, lastLeaderHeartbeat, pendingLeaderCheck, electionTimers>>
        ELSE /\ CanPost(t)
             /\ IF lastLeaderHeartbeat[t] = "fresh"
                 THEN /\ chan' = Posted(chan, t, <<LeaderQueryMsg>>)
                      /\ UNCHANGED <<followerCheckInterval, lastLeaderHeartbeat,
                                     pendingLeaderCheck, electionTimers>>
                 ELSE LET e == BecomeLeader(t, [Elec(t) EXCEPT !.fci = FALSE]) IN
                      /\ TimerFree(t, Elec(t))
                      /\ chan' = Posted(chan, t, <<LeaderQueryMsg, LeaderQueryMsg>>)
                      /\ followerCheckInterval' = [followerCheckInterval EXCEPT ![t] = e.fci]
                      /\ lastLeaderHeartbeat' = [lastLeaderHeartbeat EXCEPT ![t] = e.hb]
                      /\ pendingLeaderCheck' = [pendingLeaderCheck EXCEPT ![t] = e.pending]
                      /\ electionTimers' = [electionTimers EXCEPT ![t] = e.timers]
    /\ UNCHANGED <<dataVars, coVars, lsLeader, lsFresh, leaderCheckInterval,
                   reconnectTimeout, reconnectAttempts>>

\* More than LEADER_TIMEOUT passes since the tab last heard of a leader.
HeartbeatAge(t) ==
    /\ alive[t]
    /\ lastLeaderHeartbeat[t] = "fresh"
    /\ lastLeaderHeartbeat' = [lastLeaderHeartbeat EXCEPT ![t] = "stale"]
    /\ UNCHANGED <<dataVars, chan, coVars, lsLeader, lsFresh, pendingLeaderCheck,
                   electionTimers, leaderCheckInterval, followerCheckInterval,
                   reconnectTimeout, reconnectAttempts>>

\* More than LEADER_TIMEOUT passes since the stored heartbeat was written.
StorageAge ==
    /\ lsFresh
    /\ lsFresh' = FALSE
    /\ UNCHANGED <<dataVars, chan, coVars, lsLeader, lastLeaderHeartbeat,
                   pendingLeaderCheck, electionTimers, leaderCheckInterval,
                   followerCheckInterval, reconnectTimeout, reconnectAttempts>>

\* connect(): isExplicitlyClosed = false, then becomeLeader.
ConnectUpTo(t, n) ==
    /\ alive[t]
    /\ configEnabled
    /\ TimerFreeUpTo(t, Elec(t), n)
    /\ CanPost(t)
    /\ isExplicitlyClosed' = [isExplicitlyClosed EXCEPT ![t] = FALSE]
    /\ disconnected' = [disconnected EXCEPT ![t] = FALSE]
    /\ SetElec(t, Awaited(Elec(t), BecomeLeader(t, Elec(t))))
    /\ chan' = Posted(chan, t, BecomeLeaderMsgs(Elec(t)))
    /\ UNCHANGED <<dataVars, alive, isCacheEnabled, ws, wsStatus, closing, synced, online,
                   sideVars, lsLeader, lsFresh, reconnectTimeout,
                   reconnectAttempts>>

Connect(t) == ConnectUpTo(t, MaxTimers)

\* connect() called while the election wait of an earlier call may still be
\* pending.
ConnectAgain(t) == ConnectUpTo(t, MaxWaits)

\* disconnect(): isExplicitlyClosed = true, then stepDown.
DisconnectCall(t) ==
    /\ alive[t]
    /\ isExplicitlyClosed' = [isExplicitlyClosed EXCEPT ![t] = TRUE]
    /\ disconnected' = [disconnected EXCEPT ![t] = TRUE]
    /\ IF isLeader[t]
        THEN /\ SetElec(t, StepDown(Elec(t)))
             /\ ClearLeaderStorage(t)
             /\ SetSock(t, DisconnectWebSocket(Sock(t)))
        ELSE UNCHANGED <<isLeader, lastLeaderHeartbeat, pendingLeaderCheck,
                         electionTimers, leaderCheckInterval, followerCheckInterval,
                         lsLeader, lsFresh, ws, wsStatus, closing, reconnectTimeout, synced>>
    /\ UNCHANGED <<dataVars, chan, alive, online, sideVars, reconnectAttempts>>

Disconnect(t) == DisconnectCall(t) /\ UNCHANGED isCacheEnabled

\* ProCacheClient.setEnabled(false): socket.disconnect(), then
\* socket.setIsCacheEnabled(false), unless the configuration has
\* enabled === false.
SetEnabledOff(t) ==
    /\ configEnabled
    /\ DisconnectCall(t)
    /\ isCacheEnabled' = [isCacheEnabled EXCEPT ![t] = FALSE]

\* The tab closes or reloads: beforeunload posts leader-stepdown and clears
\* the slot if the tab leads; its timers, its socket and the messages queued
\* for it go with it.
Unload(t) ==
    /\ alive[t]
    /\ alive' = [alive EXCEPT ![t] = FALSE]
    /\ IF isLeader[t]
        THEN /\ CanPost(t)
             /\ ClearLeaderStorage(t)
             /\ chan' = [s \in Tabs |-> [r \in Tabs |->
                    IF r = t THEN <<>>
                    ELSE Posted(chan, t, <<LeaderStepdownMsg(t)>>)[s][r]]]
        ELSE /\ UNCHANGED <<lsLeader, lsFresh>>
             /\ chan' = [s \in Tabs |-> [r \in Tabs |->
                    IF r = t THEN <<>> ELSE chan[s][r]]]
    /\ SetElec(t, [isLeader |-> FALSE, hb |-> "zero", pending |-> FALSE,
                   timers |-> <<>>, lci |-> FALSE, fci |-> FALSE])
    /\ SetSock(t, [ws |-> "null", closing |-> 0, timeout |-> 0, synced |-> FALSE,
                   status |-> "disconnected"])
    /\ UNCHANGED <<dataVars, isExplicitlyClosed, isCacheEnabled, disconnected,
                   online, sideVars, reconnectAttempts>>

(* ------------------------------------------------------------------ *)
(* Coordinator: handleBroadcast                                        *)
(* ------------------------------------------------------------------ *)

\* A leader that receives the leader-claim of another tab steps down.
YieldsToClaimMutant(r) == FALSE
YieldsToClaim(r) == isLeader[r]

\* leader-claim from tab s: the heartbeat is refreshed; a leader steps down
\* and a tab in election stays follower, both start monitoring the leader; a
\* socket held by a non-leader is closed.
DeliverLeaderClaim(s, r) ==
    /\ alive[r]
    /\ chan[s][r] # <<>>
    /\ Head(chan[s][r]).type = "leader-claim"
    /\ LET e0 == [Elec(r) EXCEPT !.hb = "fresh"]
           e1 == IF YieldsToClaim(r) THEN [StepDown(e0) EXCEPT !.fci = TRUE]
                 ELSE IF e0.isLeader THEN e0
                 ELSE IF e0.pending
                    THEN [ResolveLast(e0) EXCEPT !.pending = FALSE, !.fci = TRUE]
                 ELSE e0
       IN
        /\ SetElec(r, e1)
        /\ IF YieldsToClaim(r) THEN ClearLeaderStorage(r)
                               ELSE UNCHANGED <<lsLeader, lsFresh>>
        /\ SetSock(r, IF ~e1.isLeader /\ ws[r] # "null"
                        THEN DisconnectWebSocket(Sock(r)) ELSE Sock(r))
    /\ chan' = [chan EXCEPT ![s][r] = Tail(@)]
    /\ UNCHANGED <<dataVars, envVars, isExplicitlyClosed, isCacheEnabled>>

\* leader-query: the leader answers with leader-claim, reconnects a missing
\* or closed socket if caching is on, and reports its cache status.
DeliverLeaderQuery(s, r) ==
    /\ alive[r]
    /\ chan[s][r] # <<>>
    /\ Head(chan[s][r]).type = "leader-query"
    /\ IF isLeader[r]
        THEN /\ CanPost(r)
             /\ SetSock(r, IF /\ ws[r] \in {"null", "CLOSED"}
                              /\ ~isExplicitlyClosed[r]
                              /\ isCacheEnabled[r]
                            THEN ConnectWebSocket(Sock(r), isExplicitlyClosed[r], TRUE)
                            ELSE Sock(r))
             /\ chan' = [Posted(chan, r, <<LeaderClaimMsg(r),
                            WsCacheEnabledMsg(isCacheEnabled[r], isExplicitlyClosed[r])>>)
                         EXCEPT ![s][r] = Tail(chan[s][r])]
        ELSE /\ chan' = [chan EXCEPT ![s][r] = Tail(@)]
             /\ UNCHANGED <<ws, wsStatus, closing, reconnectTimeout, synced>>
    /\ UNCHANGED <<dataVars, envVars, isLeader, isExplicitlyClosed, isCacheEnabled,
                   lsLeader, lsFresh, lastLeaderHeartbeat, pendingLeaderCheck,
                   electionTimers, leaderCheckInterval, followerCheckInterval>>

\* leader-stepdown: a follower that has heard of a leader before stops its
\* heartbeat check and runs becomeLeader at once.
DeliverLeaderStepdown(s, r) ==
    /\ alive[r]
    /\ chan[s][r] # <<>>
    /\ Head(chan[s][r]).type = "leader-stepdown"
    /\ IF ~isLeader[r] /\ lastLeaderHeartbeat[r] # "zero"
        THEN /\ TimerFree(r, Elec(r))
             /\ CanPost(r)
             /\ SetElec(r, BecomeLeader(r, [Elec(r) EXCEPT !.fci = FALSE]))
             /\ chan' = [Posted(chan, r, <<LeaderQueryMsg>>)
                         EXCEPT ![s][r] = Tail(chan[s][r])]
        ELSE /\ chan' = [chan EXCEPT ![s][r] = Tail(@)]
             /\ UNCHANGED <<isLeader, lastLeaderHeartbeat, pendingLeaderCheck,
                            electionTimers, leaderCheckInterval, followerCheckInterval>>
    /\ UNCHANGED <<dataVars, coVars, lsLeader, lsFresh, reconnectTimeout,
                   reconnectAttempts>>

\* ws-cache-enabled: the tab adopts the sender's cache status and explicit
\* closure; a leader connects or disconnects its socket to match.
DeliverWsCacheEnabled(s, r) ==
    /\ alive[r]
    /\ chan[s][r] # <<>>
    /\ Head(chan[s][r]).type = "ws-cache-enabled"
    /\ LET m == Head(chan[s][r]) IN
        /\ isCacheEnabled' = [isCacheEnabled EXCEPT ![r] = m.enabled]
        /\ isExplicitlyClosed' = [isExplicitlyClosed EXCEPT ![r] = m.explicitlyClosed]
        /\ SetSock(r, IF ~isLeader[r] THEN Sock(r)
                        ELSE IF m.enabled /\ ~m.explicitlyClosed
                            THEN ConnectWebSocket(Sock(r), FALSE, TRUE)
                        ELSE IF ~m.enabled THEN DisconnectWebSocket(Sock(r))
                        ELSE Sock(r))
    /\ chan' = [chan EXCEPT ![s][r] = Tail(@)]
    /\ UNCHANGED <<dataVars, envVars, isLeader, lsLeader, lsFresh,
                   lastLeaderHeartbeat, pendingLeaderCheck, electionTimers,
                   leaderCheckInterval, followerCheckInterval>>

(* ------------------------------------------------------------------ *)
(* Coordinator: network status                                         *)
(* ------------------------------------------------------------------ *)
\* The browser loses or regains the network: navigator.onLine flips and the
\* offline or online event is queued at every window.
NetworkFlips ==
    /\ \A t \in Tabs : netPending[t] = "none"
    /\ online' = ~online
    /\ netPending' = [t \in Tabs |->
            IF alive[t] THEN (IF online THEN "offline" ELSE "online") ELSE "none"]
    /\ UNCHANGED <<dataVars, chan, alive, isLeader, isExplicitlyClosed,
                   isCacheEnabled, ws, wsStatus, closing, synced, disconnected,
                   enableCacheBeforeSocket, offlineClosed, lastSend, waitForSocket,
                   startupWaitDone, pollVars, elVars>>

\* handleNetworkOffline.
HandleNetworkOffline(t) ==
    /\ alive[t]
    /\ netPending[t] = "offline"
    /\ CanPost(t)
    /\ netPending' = [netPending EXCEPT ![t] = "none"]
    /\ chan' = Posted(chan, t, <<NetworkMsg("network-offline")>>)
    /\ SetSock(t, IF isLeader[t] /\ ws[t] # "null"
                    THEN DisconnectWebSocket([Sock(t) EXCEPT !.status = "offline"])
                    ELSE [Sock(t) EXCEPT !.status = "offline"])
    /\ offlineClosed' = [offlineClosed EXCEPT ![t] = isLeader[t] /\ ws[t] = "OPEN"]
    /\ UNCHANGED <<dataVars, alive, isLeader, isExplicitlyClosed, isCacheEnabled,
                   disconnected, online, enableCacheBeforeSocket, lastSend, waitForSocket,
                   startupWaitDone, pollVars, lsLeader,
                   lsFresh, lastLeaderHeartbeat, pendingLeaderCheck,
                   electionTimers, leaderCheckInterval, followerCheckInterval,
                   reconnectAttempts>>

\* handleNetworkOnline.
HandleNetworkOnline(t) ==
    /\ alive[t]
    /\ netPending[t] = "online"
    /\ CanPost(t)
    /\ netPending' = [netPending EXCEPT ![t] = "none"]
    /\ offlineClosed' = [offlineClosed EXCEPT ![t] = FALSE]
    /\ chan' = Posted(chan, t, <<NetworkMsg("network-online")>>)
    /\ IF isLeader[t]
        THEN /\ reconnectAttempts' = [reconnectAttempts EXCEPT ![t] = 0]
             /\ SetSock(t, ConnectWebSocket(Sock(t), isExplicitlyClosed[t], TRUE))
        ELSE UNCHANGED <<reconnectAttempts, ws, wsStatus, closing,
                         reconnectTimeout, synced>>
    /\ UNCHANGED <<dataVars, alive, isLeader, isExplicitlyClosed, isCacheEnabled,
                   disconnected, online, enableCacheBeforeSocket, lastSend, waitForSocket,
                   startupWaitDone, pollVars, lsLeader,
                   lsFresh, lastLeaderHeartbeat, pendingLeaderCheck,
                   electionTimers, leaderCheckInterval, followerCheckInterval>>

\* handleBroadcast, network-offline and network-online: the first sets the
\* status signal, the second only the isOnline signal and the refetches.
DeliverNetwork(s, r) ==
    /\ alive[r]
    /\ chan[s][r] # <<>>
    /\ Head(chan[s][r]).type \in {"network-offline", "network-online"}
    /\ wsStatus' = IF Head(chan[s][r]).type = "network-offline"
                    THEN [wsStatus EXCEPT ![r] = "offline"] ELSE wsStatus
    /\ chan' = [chan EXCEPT ![s][r] = Tail(@)]
    /\ UNCHANGED <<dataVars, alive, isLeader, isExplicitlyClosed, isCacheEnabled,
                   ws, closing, synced, disconnected, online, sideVars, elVars>>

(* ------------------------------------------------------------------ *)
(* Specifications                                                      *)
(* ------------------------------------------------------------------ *)
\* Empty store, empty memories, nothing in flight.
InitCacheWith(wfs) ==
    /\ waitForSocket = wfs
    /\ startupWaitDone = [t \in Tabs |-> FALSE]
    /\ focused = [t \in Tabs |-> TRUE]
    /\ polls = [t \in Tabs |-> <<>>]
    /\ started = [t \in Tabs |-> 0]
    /\ cbFired = [t \in Tabs |-> <<>>]
    /\ psTs = [b \in Buckets |-> NoTs]
    /\ psCache = [b \in Buckets |-> EmptyBucket]
    /\ memHas = [t \in Tabs |-> {}]
    /\ memEnt = [t \in Tabs |-> [b \in Buckets |-> EmptyBucket]]
    /\ setPending = [t \in Tabs |-> <<>>]
    /\ got = [t \in Tabs |-> NoGet]
    /\ now = 0
    /\ chan = [s \in Tabs |-> [r \in Tabs |-> <<>>]]
    /\ calls = [t \in Tabs |-> [c \in Callers |-> IdleCall]]
    /\ reqs = {}
    /\ pendingFetches = [t \in Tabs |-> [k \in Keys |-> 0]]
    /\ nextId = 1
    /\ invEpoch = [b \in Buckets |-> 0]
    /\ notified = [t \in Tabs |-> [b \in Buckets |-> 0]]
    /\ globalFired = [t \in Tabs |-> 0]
    /\ netPending = [t \in Tabs |-> "none"]
    /\ offlineClosed = [t \in Tabs |-> FALSE]
    /\ lastSend = [t \in Tabs |-> NoSend]

InitCache == InitCacheWith(FALSE)

\* Tab A leads with its socket connected and synchronised, the other tabs
\* of open follow it.
InitRunningWith(open, attempts) ==
    /\ alive = [t \in Tabs |-> t \in open]
    /\ isLeader = [t \in Tabs |-> t = "A"]
    /\ isExplicitlyClosed = [t \in Tabs |-> FALSE]
    /\ isCacheEnabled = [t \in Tabs |-> TRUE]
    /\ ws = [t \in Tabs |-> IF t = "A" THEN "OPEN" ELSE "null"]
    /\ wsStatus = [t \in Tabs |-> IF t = "A" THEN "connected" ELSE "disconnected"]
    /\ closing = [t \in Tabs |-> 0]
    /\ synced = [t \in Tabs |-> t = "A"]
    /\ disconnected = [t \in Tabs |-> FALSE]
    /\ online = TRUE
    /\ enableCacheBeforeSocket = TRUE
    /\ lsLeader = "A"
    /\ lsFresh = TRUE
    /\ lastLeaderHeartbeat =
            [t \in Tabs |-> IF t \in open \ {"A"} THEN "fresh" ELSE "zero"]
    /\ pendingLeaderCheck = [t \in Tabs |-> FALSE]
    /\ electionTimers = [t \in Tabs |-> <<>>]
    /\ leaderCheckInterval = [t \in Tabs |-> t = "A"]
    /\ followerCheckInterval = [t \in Tabs |-> t \in open \ {"A"}]
    /\ reconnectTimeout = [t \in Tabs |-> 0]
    /\ reconnectAttempts = [t \in Tabs |-> IF t = "A" THEN attempts ELSE 0]

InitRunning(open) == InitRunningWith(open, 0)

InitStore ==
    /\ InitCache
    /\ InitRunning({"A", "B"})
    /\ configEnabled = TRUE
    /\ cacheWritesOffline = FALSE

NextStore ==
    \/ \E t \in Tabs, d \in Data, ts \in Timestamps : CMSet(t, "X", "k1", d, 1, ts)
    \/ \E t \in Tabs : CMSetDone(t)
    \/ CMGet("A", "X", "k1")
    \/ CMGetReturn("A")
    \/ CMInvalidate("A", "X")
    \/ \E s \in Tabs, r \in Tabs : CacheDeliver(s, r)

SpecStore == InitStore /\ [][NextStore]_vars

\* Order: only tab A writes and invalidates route X; tab B's memory is
\* filled by A's broadcasts alone.
NextOrder ==
    \/ \E d \in Data, ts \in Timestamps : CMSet("A", "X", "k1", d, 1, ts)
    \/ CMSetDone("A")
    \/ CMInvalidate("A", "X")
    \/ \E r \in {"B"} : CacheDeliver("A", r)

SpecOrder == InitStore /\ [][NextOrder]_vars

NextFetch ==
    \/ \E c \in Callers, ttl \in Ttls, force \in BOOLEAN :
            FetchCall("A", c, "X", "k1", ttl, force)
    \/ \E c \in Callers : FetchLookup("A", c)
    \/ \E id \in 1..MaxReq, d \in Data, ts \in Timestamps : HttpOk(id, d, ts)
    \/ \E id \in 1..MaxReq : HttpFail(id)
    \/ \E id \in 1..MaxReq : TsWriteDone(id)
    \/ \E id \in 1..MaxReq : CacheWriteDone(id)
    \/ \E c \in Callers : FetchReturn("A", c)
    \/ \E s \in Tabs, r \in Tabs : CacheDeliver(s, r)

SpecFetch == InitStore /\ [][NextFetch]_vars

\* Throw: the fetches of tab A where api.get may fail, either by a rejected
\* promise or by throwing before it returns one.
NextThrow ==
    \/ \E c \in Callers : FetchCall("A", c, "X", "k1", 1, FALSE)
    \/ \E c \in Callers : FetchLookup("A", c)
    \/ \E c \in Callers : FetchLookupThrows("A", c)
    \/ \E c \in Callers : AwaitRejected("A", c)
    \/ \E id \in 1..MaxReq : HttpOk(id, "a", 1)
    \/ \E id \in 1..MaxReq : HttpFail(id)
    \/ \E id \in 1..MaxReq : TsWriteDone(id)
    \/ \E id \in 1..MaxReq : CacheWriteDone(id)
    \/ \E c \in Callers : FetchReturn("A", c)
    \/ CacheDeliver("A", "B")

SpecThrow == InitStore /\ [][NextThrow]_vars

\* Tab A leads and receives the server's messages; tabs A and B fetch.
InitSync ==
    /\ InitStore

NextSync ==
    \/ \E t \in {"A", "B"} : FetchCall(t, "c1", "X", "k1", 1, FALSE)
    \/ \E t \in Tabs : FetchLookup(t, "c1")
    \/ \E id \in 1..MaxReq, ts \in Timestamps : HttpOk(id, "a", ts)
    \/ \E id \in 1..MaxReq : TsWriteDone(id)
    \/ \E id \in 1..MaxReq : CacheWriteDone(id)
    \/ \E t \in Tabs : FetchReturn(t, "c1")
    \/ \E data \in SyncData : FullSync("A", data)
    \/ FullSyncEmpty("A")
    \/ Delta("A", "X")
    \/ \E s \in Tabs, r \in Tabs : CacheDeliver(s, r)
    \/ \E s \in Tabs, r \in Tabs : DeliverWsInvalidate(s, r)
    \/ \E s \in Tabs, r \in Tabs : DeliverWsInvalidateAll(s, r)
    \/ \E s \in Tabs, r \in Tabs : DeliverWsCacheEnabled(s, r)

SpecSync == InitSync /\ [][NextSync]_vars

\* Stale: the server changes route X at timestamp DeltaTs and sends the
\* delta { X: DeltaTs } to the leader A; the responses to the fetches of
\* tabs A and B were computed before the change and carry StaleTs.
StaleTs == 1
DeltaTs == 2

NextStale ==
    \/ \E t \in {"A", "B"} : FetchCall(t, "c1", "X", "k1", 1, FALSE)
    \/ \E t \in {"A", "B"} : FetchLookup(t, "c1")
    \/ \E id \in 1..MaxReq : HttpOk(id, "a", StaleTs)
    \/ \E id \in 1..MaxReq : TsWriteDone(id)
    \/ \E id \in 1..MaxReq : CacheWriteDone(id)
    \/ \E t \in {"A", "B"} : FetchReturn(t, "c1")
    \/ Delta("A", "X")
    \/ \E s \in {"A", "B"}, r \in {"A", "B"} : CacheDeliver(s, r)
    \/ \E s \in {"A", "B"}, r \in {"A", "B"} : DeliverWsInvalidate(s, r)

SpecStale == InitStore /\ [][NextStale]_vars

\* The tabs of open are freshly constructed; nobody has connected.
InitFresh(open, ecbs) ==
    /\ alive = [t \in Tabs |-> t \in open]
    /\ isLeader = [t \in Tabs |-> FALSE]
    /\ isExplicitlyClosed = [t \in Tabs |-> FALSE]
    /\ enableCacheBeforeSocket \in ecbs
    /\ isCacheEnabled = [t \in Tabs |-> enableCacheBeforeSocket]
    /\ ws = [t \in Tabs |-> "null"]
    /\ wsStatus = [t \in Tabs |-> "disconnected"]
    /\ closing = [t \in Tabs |-> 0]
    /\ synced = [t \in Tabs |-> FALSE]
    /\ disconnected = [t \in Tabs |-> FALSE]
    /\ online = TRUE
    /\ lsLeader = NoTab
    /\ lsFresh = FALSE
    /\ lastLeaderHeartbeat = [t \in Tabs |-> "zero"]
    /\ pendingLeaderCheck = [t \in Tabs |-> FALSE]
    /\ electionTimers = [t \in Tabs |-> <<>>]
    /\ leaderCheckInterval = [t \in Tabs |-> FALSE]
    /\ followerCheckInterval = [t \in Tabs |-> FALSE]
    /\ reconnectTimeout = [t \in Tabs |-> 0]
    /\ reconnectAttempts = [t \in Tabs |-> 0]

CoordTabs == {"A", "B"}

InitCoord ==
    /\ InitCache
    /\ InitFresh(CoordTabs, {TRUE})
    /\ configEnabled = TRUE
    /\ cacheWritesOffline = FALSE

NextCoord ==
    \/ \E t \in CoordTabs : Connect(t)
    \/ Disconnect("A")
    \/ \E t \in CoordTabs : ElectionTimeout(t)
    \/ \E t \in CoordTabs : LeaderPing(t)
    \/ \E t \in CoordTabs : FollowerCheck(t)
    \/ \E t \in CoordTabs : HeartbeatAge(t)
    \/ StorageAge
    \/ \E t \in CoordTabs : OnOpen(t)
    \/ \E t \in CoordTabs : OnClose(t)
    \/ \E t \in CoordTabs : OnCloseStale(t)
    \/ \E s \in CoordTabs, r \in CoordTabs : DeliverLeaderClaim(s, r)
    \/ \E s \in CoordTabs, r \in CoordTabs : DeliverLeaderQuery(s, r)
    \/ \E s \in CoordTabs, r \in CoordTabs : DeliverWsCacheEnabled(s, r)

SpecCoord == InitCoord /\ [][NextCoord]_vars

\* Elections of two fresh tabs in which the application may call connect()
\* a second time before the election wait of the first call has ended.
NextElect ==
    \/ \E t \in CoordTabs : ConnectAgain(t)
    \/ \E t \in CoordTabs : ElectionTimeout(t)
    \/ \E t \in CoordTabs : LeaderPing(t)
    \/ \E s \in CoordTabs, r \in CoordTabs : DeliverLeaderClaim(s, r)
    \/ \E s \in CoordTabs, r \in CoordTabs : DeliverLeaderQuery(s, r)
    \/ \E s \in CoordTabs, r \in CoordTabs : DeliverWsCacheEnabled(s, r)

SpecElect == InitCoord /\ [][NextElect]_vars

\* Connection lifecycle: startup with either setting of
\* startup.enableCacheBeforeSocket, socket events and full syncs.
InitConn ==
    /\ InitCache
    /\ InitFresh(CoordTabs, BOOLEAN)
    /\ configEnabled = TRUE
    /\ cacheWritesOffline = FALSE

XOnly == [b \in {"X"} |-> 1]

NextConn ==
    \/ \E t \in CoordTabs : Connect(t)
    \/ \E t \in CoordTabs : ElectionTimeout(t)
    \/ \E t \in CoordTabs : LeaderPing(t)
    \/ \E t \in CoordTabs : FollowerCheck(t)
    \/ \E t \in CoordTabs : OnOpen(t)
    \/ \E t \in CoordTabs : OnClose(t)
    \/ \E t \in CoordTabs : FullSync(t, XOnly)
    \/ \E t \in CoordTabs : FullSyncEmpty(t)
    \/ \E s \in CoordTabs, r \in CoordTabs : CacheDeliver(s, r)
    \/ \E s \in CoordTabs, r \in CoordTabs : DeliverWsInvalidate(s, r)
    \/ \E s \in CoordTabs, r \in CoordTabs : DeliverWsInvalidateAll(s, r)
    \/ \E s \in CoordTabs, r \in CoordTabs : DeliverLeaderClaim(s, r)
    \/ \E s \in CoordTabs, r \in CoordTabs : DeliverLeaderQuery(s, r)
    \/ \E s \in CoordTabs, r \in CoordTabs : DeliverWsCacheEnabled(s, r)

SpecConn == InitConn /\ [][NextConn]_vars

\* Handoff: the leader's tab closes while two followers monitor it; the
\* application may have called disconnect() on follower C beforehand.  No
\* heartbeat grows older than LEADER_TIMEOUT during the handoff, and the
\* server accepts the new connection.
InitHandoff ==
    /\ InitCache
    /\ InitRunning(Tabs)
    /\ configEnabled = TRUE
    /\ cacheWritesOffline = FALSE

HandoffDeliver(s, r) ==
    \/ DeliverLeaderStepdown(s, r)
    \/ DeliverLeaderClaim(s, r)
    \/ DeliverLeaderQuery(s, r)
    \/ DeliverWsCacheEnabled(s, r)

NextHandoff ==
    \/ Unload("A")
    \/ alive["A"] /\ Disconnect("C")
    \/ \E t \in Tabs : LeaderPing(t)
    \/ \E t \in Tabs : FollowerCheck(t)
    \/ \E t \in Tabs : ElectionTimeout(t)
    \/ \E t \in Tabs : OnOpen(t)
    \/ \E s \in Tabs, r \in Tabs : HandoffDeliver(s, r)

SpecHandoff == InitHandoff /\ [][NextHandoff]_vars

\* Timers fire, posted messages are delivered and the connection attempt
\* completes: the event loop of a tab runs every task queued for it.  The
\* fairness is strong because a handler that posts is held back here while
\* the bounded queues of its tab are full.
FairHandoff ==
    /\ \A t \in {"B", "C"} :
        /\ SF_vars(ElectionTimeout(t))
        /\ WF_vars(OnOpen(t))
        /\ \A s \in Tabs \ {t} : SF_vars(HandoffDeliver(s, t))

SpecHandoffFair == SpecHandoff /\ FairHandoff

\* Network loss and recovery: tab A leads with its socket open, tab B
\* follows, and the browser goes offline and online.
NextNet ==
    \/ NetworkFlips
    \/ \E t \in CoordTabs : HandleNetworkOffline(t)
    \/ \E t \in CoordTabs : HandleNetworkOnline(t)
    \/ \E t \in CoordTabs : OnOpen(t)
    \/ \E t \in CoordTabs : OnClose(t)
    \/ \E t \in CoordTabs : OnCloseStale(t)
    \/ \E t \in CoordTabs : FullSync(t, XOnly)
    \/ \E s \in CoordTabs, r \in CoordTabs : DeliverNetwork(s, r)
    \/ \E s \in CoordTabs, r \in CoordTabs : CacheDeliver(s, r)
    \/ \E s \in CoordTabs, r \in CoordTabs : DeliverWsInvalidate(s, r)
    \/ \E s \in CoordTabs, r \in CoordTabs : DeliverWsCacheEnabled(s, r)

SpecNet == InitStore /\ [][NextNet]_vars

\* Reconnect backoff: scheduleReconnect applied in a leader whose attempt
\* counter is drawn from 0..MaxAttempts, with the socket and network events
\* that reset the counter, and disconnect(), which clears the timer.
InitBackoff ==
    /\ InitCache
    /\ \E n \in 0..MaxAttempts : InitRunningWith(CoordTabs, n)
    /\ configEnabled = TRUE
    /\ cacheWritesOffline = FALSE

NextBackoff ==
    \/ ScheduleReconnect("A")
    \/ Disconnect("A")
    \/ ReconnectFire("A")
    \/ OnOpen("A")
    \/ OnClose("A")
    \/ NetworkFlips
    \/ \E t \in CoordTabs : HandleNetworkOffline(t)
    \/ \E t \in CoordTabs : HandleNetworkOnline(t)
    \/ \E s \in CoordTabs, r \in CoordTabs : DeliverNetwork(s, r)
    \/ \E s \in CoordTabs, r \in CoordTabs : DeliverWsCacheEnabled(s, r)

SpecBackoff == InitBackoff /\ [][NextBackoff]_vars

\* Expiry: tabs A and B write entries with a ttl, the clock advances, and
\* tab A reads, from its memory or from the store.
NextExpiry ==
    \/ \E t \in CoordTabs, d \in Data : CMSet(t, "X", "k1", d, 1, 1)
    \/ \E t \in CoordTabs : CMSetDone(t)
    \/ CMGet("A", "X", "k1")
    \/ CMGetReturn("A")
    \/ \E s \in CoordTabs, r \in CoordTabs : CacheDeliver(s, r)
    \/ Tick

SpecExpiry == InitStore /\ [][NextExpiry]_vars

\* Cache synchronisation among three tabs: tab A writes, tab B invalidates,
\* every tab handles what it receives.
InitRelay ==
    /\ InitCache
    /\ InitRunning(Tabs)
    /\ configEnabled = TRUE
    /\ cacheWritesOffline = FALSE

NextRelay ==
    \/ \E d \in Data, ts \in Timestamps : CMSet("A", "X", "k1", d, 1, ts)
    \/ CMSetDone("A")
    \/ CMInvalidate("B", "X")
    \/ \E s \in Tabs, r \in Tabs : CacheDeliver(s, r)

SpecRelay == InitRelay /\ [][NextRelay]_vars

\* Deltas: both tabs write entries in both buckets, and the leader receives
\* deltas that list one bucket.
NextDelta ==
    \/ \E t \in CoordTabs, b \in Buckets : CMSet(t, b, "k1", "a", 1, 1)
    \/ \E t \in CoordTabs : CMSetDone(t)
    \/ \E b \in Buckets : Delta("A", b)
    \/ \E s \in CoordTabs, r \in CoordTabs : CacheDeliver(s, r)
    \/ \E s \in CoordTabs, r \in CoordTabs : DeliverWsInvalidate(s, r)

SpecDelta == InitStore /\ [][NextDelta]_vars

\* Purge: tab A leads with its socket open, tabs B and C follow; tab B
\* fetches, and the server sends full syncs with an empty payload.  A remote
\* ws-cache-enabled message may have set isExplicitlyClosed in the leader
\* while its socket stayed open.
InitPurge ==
    /\ InitCache
    /\ alive = [t \in Tabs |-> TRUE]
    /\ isLeader = [t \in Tabs |-> t = "A"]
    /\ isExplicitlyClosed \in {[t \in Tabs |-> t = "A" /\ x] : x \in BOOLEAN}
    /\ isCacheEnabled = [t \in Tabs |-> TRUE]
    /\ ws = [t \in Tabs |-> IF t = "A" THEN "OPEN" ELSE "null"]
    /\ wsStatus = [t \in Tabs |-> IF t = "A" THEN "connected" ELSE "disconnected"]
    /\ closing = [t \in Tabs |-> 0]
    /\ synced = [t \in Tabs |-> t = "A"]
    /\ disconnected = [t \in Tabs |-> FALSE]
    /\ online = TRUE
    /\ enableCacheBeforeSocket = TRUE
    /\ lsLeader = "A"
    /\ lsFresh = TRUE
    /\ lastLeaderHeartbeat = [t \in Tabs |-> IF t = "A" THEN "zero" ELSE "fresh"]
    /\ pendingLeaderCheck = [t \in Tabs |-> FALSE]
    /\ electionTimers = [t \in Tabs |-> <<>>]
    /\ leaderCheckInterval = [t \in Tabs |-> t = "A"]
    /\ followerCheckInterval = [t \in Tabs |-> t # "A"]
    /\ reconnectTimeout = [t \in Tabs |-> 0]
    /\ reconnectAttempts = [t \in Tabs |-> 0]
    /\ configEnabled = TRUE
    /\ cacheWritesOffline = FALSE

NextPurge ==
    \/ FetchCall("B", "c1", "X", "k1", 1, FALSE)
    \/ FetchLookup("B", "c1")
    \/ \E id \in 1..MaxReq : HttpOk(id, "a", 1)
    \/ \E id \in 1..MaxReq : TsWriteDone(id)
    \/ \E id \in 1..MaxReq : CacheWriteDone(id)
    \/ FetchReturn("B", "c1")
    \/ FullSyncEmpty("A")
    \/ \E s \in Tabs, r \in Tabs : CacheDeliver(s, r)
    \/ \E s \in Tabs, r \in Tabs : DeliverWsInvalidateAll(s, r)
    \/ \E s \in Tabs, r \in Tabs : DeliverWsCacheEnabled(s, r)

SpecPurge == InitPurge /\ [][NextPurge]_vars

(* ------------------------------------------------------------------ *)
(* Properties                                                          *)
(* ------------------------------------------------------------------ *)

\* A stored entry is replaced by one with a lower timestamp.
Lowered(old, new) ==
    /\ old # NoEntry
    /\ new # NoEntry
    /\ old.timestamp # Undef
    /\ new.timestamp # Undef
    /\ new.timestamp < old.timestamp

\* C2: latest wins.  No step (cache.set, db.setCache, a cache-set received
\* from a peer) replaces a stored entry with one of lower timestamp, neither
\* in a tab's memory nor in the persistent store, and a cache.get in a tab
\* whose memory holds an unexpired entry returns that entry's data.
C2_LatestWins ==
    [][\A b \in Buckets, k \in Keys :
        /\ ~Lowered(psCache[b][k], psCache'[b][k])
        /\ \A t \in Tabs :
            /\ ~Lowered(memEnt[t][b][k], memEnt'[t][b][k])
            /\ (/\ got[t] = NoGet
                /\ got'[t] # NoGet
                /\ got'[t].bucket = b
                /\ got'[t].key = k
                /\ memEnt[t][b][k] # NoEntry
                /\ ~(now > memEnt[t][b][k].expiry))
               => got'[t].data = memEnt[t][b][k].data]_vars

\* Tab A holds "a" written with timestamp 2 in memory and in the store, its
\* cache.set of "b" with timestamp 1 is awaiting db.setCache, and its
\* cache.get has returned "a".
C2_Witness ==
    /\ setPending["A"] # <<>>
    /\ Head(setPending["A"]).item.timestamp = 1
    /\ Head(setPending["A"]).item.data = "b"
    /\ memEnt["A"]["X"]["k1"].timestamp = 2
    /\ memEnt["A"]["X"]["k1"].data = "a"
    /\ psCache["X"]["k1"].timestamp = 2
    /\ psCache["X"]["k1"].data = "a"
    /\ got["A"] = [bucket |-> "X", key |-> "k1", data |-> "a"]

\* C4: in a tab, at most one HTTP GET is in flight for a key, every caller
\* that awaits a network result awaits that request, and the callers that
\* awaited the same request resolved to the same data.
C4_SingleRequest ==
    \A t \in Tabs :
        /\ \A k \in Keys :
            Cardinality({r \in reqs : r.tab = t /\ r.key = k}) <= 1
        /\ \A c \in Callers :
            calls[t][c].pc = "wait" => \E r \in reqs : r.id = calls[t][c].rid
        /\ \A c \in Callers, d \in Callers :
            (/\ calls[t][c].pc = "done"
             /\ calls[t][d].pc = "done"
             /\ calls[t][c].rid # 0
             /\ calls[t][c].rid = calls[t][d].rid)
            => calls[t][c].res = calls[t][d].res

\* Both callers of tab A missed the cache, one request was issued, and both
\* resolved to its data.
C4_Witness ==
    /\ calls["A"]["c1"].pc = "done"
    /\ calls["A"]["c2"].pc = "done"
    /\ calls["A"]["c1"].rid = 1
    /\ calls["A"]["c2"].rid = 1
    /\ calls["A"]["c1"].res = "a"
    /\ calls["A"]["c2"].res = "a"
    /\ nextId = 2

\* C1: no step lowers or removes the stored timestamp of a bucket.
C1_TimestampsMonotonic ==
    [][\A b \in Buckets :
        psTs[b] # NoTs => (psTs'[b] # NoTs /\ psTs'[b] >= psTs[b])]_vars

\* The buckets that hold an entry in the memory of tab t or in the store.
LocalBuckets(t, me, pc) ==
    {b \in Buckets : me[t][b] # EmptyBucket} \cup PSAllBucketKeys(pc)

\* C5: when the leader has processed a non-empty full sync, every bucket
\* that holds an entry in its memory or in the store is listed in the
\* message.
C5_LocalBucketsWithinSync ==
    [][\A data \in SyncData :
        FullSync("A", data) => LocalBuckets("A", memEnt', psCache') \subseteq DOMAIN data]_vars

\* C6: a fetch issued after the tab was notified of an invalidation of its
\* bucket is never answered from the cache with an entry written before that
\* invalidation.
C6_NoStaleHitAfterNotification ==
    \A t \in Tabs, c \in Callers :
        (calls[t][c].pc = "done" /\ calls[t][c].rid = 0)
            => calls[t][c].hitEp >= calls[t][c].notif

OpenSockets == {t \in Tabs : alive[t] /\ ws[t] = "OPEN"}

ClaimInFlight(s, r) ==
    \E i \in 1..Len(chan[s][r]) : chan[s][r][i] = LeaderClaimMsg(s)

\* C3 as stated: at any instant at most one tab has an open upstream socket.
C3_AtMostOneSocket == Cardinality(OpenSockets) <= 1

\* C3, amended: two tabs have open sockets only while both are leaders and
\* the leader-claim of one of them is still on its way to the other, whose
\* handler will close that tab's socket.
C3_OverlapOnlyUntilClaim ==
    \A t \in OpenSockets, u \in OpenSockets :
        t # u => /\ isLeader[t]
                 /\ isLeader[u]
                 /\ ClaimInFlight(t, u) \/ ClaimInFlight(u, t)

\* Tabs A and B both hold an open socket.
C3_Witness == OpenSockets = {"A", "B"}

\* C7: between disconnect() and the next connect() of a tab, no reconnect
\* timer is pending on it, so none fires.
C7_NoReconnectAfterDisconnect ==
    \A t \in Tabs : disconnected[t] => reconnectTimeout[t] = 0

\* Tab A called disconnect() while it led with an open socket, and the close
\* event of that socket has been handled.
C7_Witness ==
    /\ disconnected["A"]
    /\ isExplicitlyClosed["A"]
    /\ ws["A"] = "null"
    /\ closing["A"] = 0
    /\ ~isCacheEnabled["A"]
    /\ ~isLeader["A"]

\* C10 as stated: when the socket of a leader that is online and not
\* explicitly closed closes, a reconnect is scheduled with delay
\* min(5000 + floor(attempts / 4) * 5000, 20000) and attempts is incremented.
C10_ReconnectScheduled ==
    [][\A t \in Tabs :
        (OnClose(t) /\ ~isExplicitlyClosed[t] /\ isLeader[t] /\ online)
        => /\ reconnectTimeout'[t] = ReconnectDelay(reconnectAttempts[t])
           /\ reconnectAttempts'[t] = reconnectAttempts[t] + 1]_vars

\* C9 as stated: while a tab's socket is connected and no full sync has been
\* processed on that connection, cacheEnabled is false on the tab.
C9_DisabledUntilSync ==
    \A t \in Tabs : (alive[t] /\ ws[t] = "OPEN" /\ ~synced[t]) => ~isCacheEnabled[t]

\* A ws-cache-enabled message with enabled = true is delivered to tab t.
EnabledByPeer(t) ==
    \E s \in Tabs :
        /\ chan[s][t] # <<>>
        /\ Head(chan[s][t]).type = "ws-cache-enabled"
        /\ Head(chan[s][t]).enabled
        /\ chan'[s][t] = Tail(chan[s][t])

\* C9, amended: onopen leaves cacheEnabled as it was, and a tab's cacheEnabled
\* goes from false to true only when the tab has processed a full-sync
\* message on its open socket or receives ws-cache-enabled with enabled = true
\* from a peer.
C9_EnabledOnlyBySync ==
    [][\A t \in Tabs :
        /\ OnOpen(t) => isCacheEnabled'[t] = isCacheEnabled[t]
        /\ (~isCacheEnabled[t] /\ isCacheEnabled'[t])
           => \/ ws[t] = "OPEN" /\ synced'[t]
              \/ EnabledByPeer(t)]_vars

\* Tab A leads with its socket connected, has not processed a full sync on
\* it yet, and its cache is disabled.
C9_Witness ==
    /\ isLeader["A"]
    /\ ws["A"] = "OPEN"
    /\ ~synced["A"]
    /\ ~isCacheEnabled["A"]

\* The call of caller c in tab t resolves in this step.
Resolves(t, c) == calls[t][c].pc # "done" /\ calls'[t][c].pc = "done"

\* C12: a fetch called with force = true resolves only when the network
\* request it awaits settles, with that request's outcome; it is never
\* answered from the cache.
C12_ForceIsNetwork ==
    [][\A t \in Tabs, c \in Callers :
        (calls[t][c].force /\ Resolves(t, c))
        => /\ calls'[t][c].res \in Data \cup {"error"}
           /\ \E r \in reqs :
                /\ r.id = calls[t][c].rid
                /\ r.tab = t
                /\ r.key = calls[t][c].key
                /\ r \notin reqs']_vars

\* A forced call of tab A has resolved with the data of its request while
\* the cache holds an unexpired entry with other data for the key.
C12_Witness ==
    /\ calls["A"]["c1"].pc = "done"
    /\ calls["A"]["c1"].force
    /\ calls["A"]["c1"].rid # 0
    /\ calls["A"]["c1"].res = "b"
    /\ GetHit("A", "X", "k1")
    /\ GetItem("A", "X", "k1").data = "a"

\* C13: when a forced fetch whose request caches (cacheEnabled, ttl > 0)
\* resolves with data, the entry of the key in the tab's memory holds that
\* data.
C13_ForceWritesBack ==
    [][\A t \in Tabs, c \in Callers :
        (/\ calls[t][c].force
         /\ Resolves(t, c)
         /\ calls'[t][c].res \in Data
         /\ \E r \in reqs : r.id = calls[t][c].rid /\ r.ce /\ r.ttl > 0)
        => memEnt'[t][calls[t][c].bucket][calls[t][c].key].data = calls'[t][c].res]_vars

\* C14: when the leader processes a full sync, every bucket of the message
\* whose invalidation is applied has its stored bucket timestamp set to
\* the timestamp of the message.
C14_InvalidationSetsTimestamp ==
    [][\A data \in SyncData :
        FullSync("A", data)
        => \A b \in DOMAIN data :
            ShouldUpdate(b, data[b]) => psTs'[b] = data[b]]_vars

\* C15: when the HTTP GET of a request fails, every caller awaiting it
\* resolves with the error, memory and the store are left as they were,
\* and the key has no pending request.
C15_FailureLeavesCache ==
    [][\A id \in 1..MaxReq :
        HttpFail(id)
        => /\ \A c \in Callers :
                (calls[ReqOf(id).tab][c].pc = "wait" /\ calls[ReqOf(id).tab][c].rid = id)
                => (calls'[ReqOf(id).tab][c].pc = "done"
                    /\ calls'[ReqOf(id).tab][c].res = "error")
           /\ UNCHANGED <<psTs, psCache, memHas, memEnt>>
           /\ pendingFetches'[ReqOf(id).tab][ReqOf(id).key] = 0]_vars

\* Both callers of tab A awaited one request and resolved with its error;
\* nothing is cached and no request is pending.
C15_Witness ==
    /\ calls["A"]["c1"].pc = "done"
    /\ calls["A"]["c2"].pc = "done"
    /\ calls["A"]["c1"].res = "error"
    /\ calls["A"]["c2"].res = "error"
    /\ calls["A"]["c1"].rid = calls["A"]["c2"].rid
    /\ pendingFetches["A"]["k1"] = 0
    /\ psCache["X"]["k1"] = NoEntry

\* C20: the write-back of a successful fetch stores the server timestamp
\* of the response as the bucket timestamp when it is newer, and the entry
\* that cache.set stores carries that timestamp.
C20_WriteBackTimestamp ==
    [][\A id \in 1..MaxReq :
        /\ \A d \in Data, ts \in Timestamps :
            (HttpOk(id, d, ts) /\ ShouldCache(ReqOf(id)))
            => psTs'[ReqOf(id).bucket] = SetTimestamp(psTs[ReqOf(id).bucket], ts)
        /\ (TsWriteDone(id) /\ ReqOf(id).ttl > 0)
            => (Head(setPending'[ReqOf(id).tab]).item.timestamp = ReqOf(id).ts)]_vars

(* ------------------------------------------------------------------ *)
(* Coordinator: send                                                    *)
(* ------------------------------------------------------------------ *)

\* Values handed to send(): a string that is not JSON, an object, and a
\* string that is the JSON text of a string.
JsString(str) == [k |-> "string", v |-> str]
JsObject == [k |-> "object", v |-> "o"]
SendData == {JsString("hi"), JsObject, JsString("\"hi\"")}

JsonStringify(val) == IF val.k = "object" THEN "{o}" ELSE "\"" \o val.v \o "\""

\* tryParse(str): JSON.parse(str), or str itself when it is not JSON.
TryParse(str) ==
    IF str = "{o}" THEN JsObject
    ELSE IF str = "\"hi\"" THEN JsString("hi")
    ELSE JsString(str)

\* const payload = typeof data === 'string' ? data : JSON.stringify(data)
Payload(data) == IF data.k = "string" THEN data.v ELSE JsonStringify(data)

\* The branch send() takes in tab t.
SendOutcomeMutant(t) ==
    IF isLeader[t] THEN (IF ws[t] = "OPEN" THEN "written" ELSE "dropped")
    ELSE IF pendingLeaderCheck[t] THEN "dropped"
    ELSE "broadcast"
SendOutcome(t) ==
    IF isLeader[t] THEN (IF ws[t] = "OPEN" THEN "written" ELSE "dropped")
    ELSE "broadcast"

\* The queues of tab t have room for one message behind the messages of
\* one handler of the election.
CanSend(t) == \A r \in Peers(t) : Len(chan[t][r]) <= MaxQueue + 1

\* send(data) in tab t, called by the application.
Send(t, data) ==
    /\ alive[t]
    /\ SendOutcome(t) = "broadcast" => CanSend(t)
    /\ lastSend' = [lastSend EXCEPT ![t] =
            [outcome |-> SendOutcome(t), via |-> "send", text |-> Payload(data)]]
    /\ chan' = IF SendOutcome(t) = "broadcast"
                THEN Posted(chan, t, <<UpstreamMsg(TryParse(Payload(data)))>>)
                ELSE chan
    /\ UNCHANGED <<dataVars, alive, isLeader, isExplicitlyClosed, isCacheEnabled,
                   ws, wsStatus, closing, synced, disconnected, online,
                   enableCacheBeforeSocket, netPending, offlineClosed, waitForSocket,
                   startupWaitDone, pollVars, elVars>>

\* ws-upstream: if (this.isLeader) this.send(msg.payload).
DeliverWsUpstream(s, r) ==
    /\ alive[r]
    /\ chan[s][r] # <<>>
    /\ Head(chan[s][r]).type = "ws-upstream"
    /\ chan' = [chan EXCEPT ![s][r] = Tail(@)]
    /\ lastSend' = IF isLeader[r]
                    THEN [lastSend EXCEPT ![r] =
                            [outcome |-> SendOutcome(r), via |-> "ws-upstream",
                             text |-> Payload(Head(chan[s][r]).payload)]]
                    ELSE lastSend
    /\ UNCHANGED <<dataVars, alive, isLeader, isExplicitlyClosed, isCacheEnabled,
                   ws, wsStatus, closing, synced, disconnected, online,
                   enableCacheBeforeSocket, netPending, offlineClosed, waitForSocket,
                   startupWaitDone, pollVars, elVars>>

NextSend ==
    \/ \E t \in CoordTabs, data \in SendData : Send(t, data)
    \/ \E s \in CoordTabs, r \in CoordTabs : DeliverWsUpstream(s, r)
    \/ \E t \in CoordTabs : HeartbeatAge(t)
    \/ StorageAge
    \/ \E t \in CoordTabs : FollowerCheck(t)
    \/ \E t \in CoordTabs : ElectionTimeout(t)
    \/ \E t \in CoordTabs : OnClose(t)
    \/ \E s \in CoordTabs, r \in CoordTabs : DeliverLeaderClaim(s, r)
    \/ \E s \in CoordTabs, r \in CoordTabs : DeliverLeaderQuery(s, r)
    \/ \E s \in CoordTabs, r \in CoordTabs : DeliverWsCacheEnabled(s, r)

SpecSend == InitStore /\ [][NextSend]_vars

\* C19: send() in a leader with an open socket writes the payload; in a
\* leader without an open socket it drops the payload and posts nothing;
\* in every tab that is not the leader, electing or not, it posts
\* ws-upstream; a leader with an open socket that receives ws-upstream
\* writes the payload of the message.
C19_SendRouting ==
    [][/\ \A t \in Tabs, data \in SendData :
            Send(t, data)
            => /\ (isLeader[t] /\ ws[t] = "OPEN")
                    => (lastSend'[t].outcome = "written" /\ chan' = chan)
               /\ (isLeader[t] /\ ws[t] # "OPEN")
                    => (lastSend'[t].outcome = "dropped" /\ chan' = chan)
               /\ ~isLeader[t]
                    => /\ lastSend'[t].outcome = "broadcast"
                       /\ \A r \in Peers(t) :
                            chan'[t][r] = Append(chan[t][r],
                                UpstreamMsg(TryParse(Payload(data))))
       /\ \A s \in Tabs, r \in Tabs :
            (DeliverWsUpstream(s, r) /\ isLeader[r] /\ ws[r] = "OPEN")
            => lastSend'[r] = [outcome |-> "written", via |-> "ws-upstream",
                               text |-> Payload(Head(chan[s][r]).payload)]]_vars

\* Tab B sent while its election was pending, and the leader A has written
\* the payload of the ws-upstream message to its socket.
C19_Witness ==
    /\ pendingLeaderCheck["B"]
    /\ lastSend["B"].outcome = "broadcast"
    /\ lastSend["A"].outcome = "none"
    /\ \E i \in 2..Len(chan["B"]["A"]) : chan["B"]["A"][i].type = "ws-upstream"

\* The leader A has written the payload of a ws-upstream message of the
\* follower B to its socket.
C19_Relayed ==
    /\ lastSend["B"].outcome = "broadcast"
    /\ lastSend["A"] = [outcome |-> "written", via |-> "ws-upstream", text |-> "{o}"]

\* C19 as stated: send() in a tab whose election is pending posts nothing.
C19_ElectingDrops ==
    [][\A t \in Tabs, data \in SendData :
        (Send(t, data) /\ ~isLeader[t] /\ pendingLeaderCheck[t])
        => (chan' = chan /\ lastSend'[t].outcome = "dropped")]_vars

(* ------------------------------------------------------------------ *)
(* Coordinator: notification of subscribers, background polling         *)
(* ------------------------------------------------------------------ *)

\* Time is counted in steps of 100 ms: backgroundPollInterval (default
\* 200 ms) and getDelay(key) (default 500 ms).
PollInterval == 2
MaxWait == 5
MaxElapsed == 7
MaxPolls == 2

\* The item key that pollForCache looks up for route X: find(key) is called
\* with the route pattern, which is the specific key of a route without
\* parameters.
PollKey == "k1"

\* pollForCache(key, callbacks): startTime = now, first check after
\* pollInterval.
NewPollMutant(b, ep) ==
    [bucket |-> CHOOSE u \in Buckets : u # b, ep |-> ep, elapsed |-> 0,
     timer |-> PollInterval]
NewPoll(b, ep) == [bucket |-> b, ep |-> ep, elapsed |-> 0, timer |-> PollInterval]

RemoveAt(q, i) == [j \in 1..(Len(q) - 1) |-> IF j < i THEN q[j] ELSE q[j + 1]]

\* cacheManager.find(key): memory first, then every bucket of the store.
FindInMemory(t) == \E b \in memHas[t] : memEnt[t][b][PollKey] # NoEntry
FindBuckets(t) ==
    IF FindInMemory(t)
        THEN {CHOOSE b \in memHas[t] : memEnt[t][b][PollKey] # NoEntry}
        ELSE PSAllBucketKeys(psCache)
FindHit(t) == \E b \in FindBuckets(t) : GetHit(t, b, PollKey)

\* The check of pollForCache runs the callbacks: the tab has focus, find
\* returned data, or maxWait has elapsed.
PollFiresMutant(t, p) == focused[t] \/ FindHit(t)
PollFires(t, p) == focused[t] \/ FindHit(t) \/ p.elapsed >= MaxWait

\* Step 3 of invalidateAndNotify and of the ws-invalidate handler: run the
\* callbacks now if the document has focus, else start pollForCache.
NotifySubscribers(t, b, ep) ==
    /\ started[t] < MaxEpoch
    /\ started' = [started EXCEPT ![t] = @ + 1]
    /\ IF focused[t]
        THEN /\ cbFired' = [cbFired EXCEPT ![t] = Append(@, "immediate")]
             /\ notified' = [notified EXCEPT ![t][b] = ep]
             /\ UNCHANGED polls
        ELSE /\ Len(polls[t]) < MaxPolls
             /\ polls' = [polls EXCEPT ![t] = Append(@, NewPoll(b, ep))]
             /\ UNCHANGED <<cbFired, notified>>

\* invalidate-delta for bucket b on the leader's socket, with subscribers
\* of b in the tab.
DeltaNotify(t, b) ==
    /\ alive[t]
    /\ ws[t] = "OPEN"
    /\ CanPost(t)
    /\ invEpoch[b] < MaxEpoch
    /\ invEpoch' = [invEpoch EXCEPT ![b] = @ + 1]
    /\ UNCHANGED globalFired
    /\ memEnt' = [memEnt EXCEPT ![t][b] = EmptyBucket]
    /\ memHas' = [memHas EXCEPT ![t] = @ \ {b}]
    /\ psCache' = InvalidatedPS(t, psCache, {b})
    /\ chan' = Posted(chan, t, InvalidateMsgs(1, {b}, invEpoch'))
    /\ NotifySubscribers(t, b, invEpoch[b] + 1)
    /\ UNCHANGED <<psTs, setPending, got, now, fetchVars, alive, isLeader,
                   isExplicitlyClosed, isCacheEnabled, ws, wsStatus, closing, synced,
                   disconnected, online, enableCacheBeforeSocket, netPending,
                   offlineClosed, lastSend, waitForSocket, startupWaitDone, focused,
                   elVars>>

\* ws-invalidate in a tab with subscribers of the bucket; a leader ignores
\* the message.
DeliverWsInvalidateNotify(s, r) ==
    /\ alive[r]
    /\ chan[s][r] # <<>>
    /\ Head(chan[s][r]).type = "ws-invalidate"
    /\ IF isLeader[r]
        THEN UNCHANGED <<notified, polls, started, cbFired>>
        ELSE NotifySubscribers(r, Head(chan[s][r]).bucket, Head(chan[s][r]).ep)
    /\ chan' = [chan EXCEPT ![s][r] = Tail(@)]
    /\ UNCHANGED <<psVars, cmVars, now, fetchVars, invEpoch, globalFired, alive, isLeader,
                   isExplicitlyClosed, isCacheEnabled, ws, wsStatus, closing, synced,
                   disconnected, online, enableCacheBeforeSocket, netPending,
                   offlineClosed, lastSend, waitForSocket, startupWaitDone, focused,
                   elVars>>

\* The check of a pollForCache run whose timer is due.
PollCheck(t, i) ==
    /\ alive[t]
    /\ i \in 1..Len(polls[t])
    /\ polls[t][i].timer = 0
    /\ IF focused[t]
        THEN UNCHANGED <<memHas, memEnt>>
        ELSE /\ memHas' = [memHas EXCEPT ![t] = @ \cup FindBuckets(t)]
             /\ memEnt' = [memEnt EXCEPT ![t] = [b \in Buckets |->
                    IF b \in FindBuckets(t)
                        THEN [memEnt[t][b] EXCEPT ![PollKey] = GetResult(t, b, PollKey)]
                        ELSE memEnt[t][b]]]
    /\ IF PollFires(t, polls[t][i])
        THEN /\ polls' = [polls EXCEPT ![t] = RemoveAt(@, i)]
             /\ cbFired' = [cbFired EXCEPT ![t] = Append(@,
                    IF focused[t] THEN "focus"
                    ELSE IF FindHit(t) THEN "found" ELSE "timeout")]
             /\ notified' = [notified EXCEPT ![t][polls[t][i].bucket] = polls[t][i].ep]
        ELSE /\ polls' = [polls EXCEPT ![t][i].timer = PollInterval]
             /\ UNCHANGED <<cbFired, notified>>
    /\ UNCHANGED <<psVars, setPending, got, now, chan, fetchVars, invEpoch, globalFired, alive,
                   isLeader, isExplicitlyClosed, isCacheEnabled, ws, wsStatus, closing,
                   synced, disconnected, online, enableCacheBeforeSocket, netPending,
                   offlineClosed, lastSend, waitForSocket, startupWaitDone, focused,
                   started, elVars>>

\* 100 ms pass; a timer that is due may run late, up to MaxElapsed.
PollTick ==
    /\ \E t \in Tabs : polls[t] # <<>>
    /\ \A t \in Tabs : \A i \in 1..Len(polls[t]) : polls[t][i].elapsed < MaxElapsed
    /\ polls' = [t \in Tabs |-> [i \in 1..Len(polls[t]) |->
            [polls[t][i] EXCEPT !.elapsed = @ + 1,
                                !.timer = IF @ > 0 THEN @ - 1 ELSE 0]]]
    /\ UNCHANGED <<dataVars, chan, alive, isLeader, isExplicitlyClosed, isCacheEnabled,
                   ws, wsStatus, closing, synced, disconnected, online,
                   enableCacheBeforeSocket, netPending, offlineClosed, lastSend,
                   waitForSocket, startupWaitDone, focused, started, cbFired, elVars>>

\* The window gains or loses focus.
FocusChange(t) ==
    /\ alive[t]
    /\ focused' = [focused EXCEPT ![t] = ~@]
    /\ UNCHANGED <<dataVars, chan, alive, isLeader, isExplicitlyClosed, isCacheEnabled,
                   ws, wsStatus, closing, synced, disconnected, online,
                   enableCacheBeforeSocket, netPending, offlineClosed, lastSend,
                   waitForSocket, startupWaitDone, polls, started, cbFired, elVars>>

NextPoll ==
    \/ DeltaNotify("A", "X")
    \/ \E s \in CoordTabs, r \in CoordTabs : DeliverWsInvalidateNotify(s, r)
    \/ \E s \in CoordTabs, r \in CoordTabs : CacheDeliver(s, r)
    \/ \E t \in CoordTabs, i \in 1..MaxPolls : PollCheck(t, i)
    \/ PollTick
    \/ FocusChange("B")
    \/ FetchCall("A", "c1", "X", "k1", 1, FALSE)
    \/ FetchLookup("A", "c1")
    \/ \E id \in 1..MaxReq : HttpOk(id, "a", 1)
    \/ \E id \in 1..MaxReq : TsWriteDone(id)
    \/ \E id \in 1..MaxReq : CacheWriteDone(id)

SpecPoll == InitStore /\ [][NextPoll]_vars

\* The timers of a tab fire and time passes.
FairPoll ==
    /\ WF_vars(PollTick)
    /\ \A t \in CoordTabs, i \in 1..MaxPolls : WF_vars(PollCheck(t, i))

SpecPollFair == SpecPoll /\ FairPoll

\* Notify: tab A leads with its socket open and receives deltas for route
\* X, tab B follows and caches an item of route Y, so that its cache is
\* populated when a ws-invalidate message arrives.  Tab C either follows or
\* is a second leader left by an election race.
InitNotify ==
    /\ InitCache
    /\ configEnabled = TRUE
    /\ cacheWritesOffline = FALSE
    /\ \E second \in BOOLEAN :
        /\ alive = [t \in Tabs |-> TRUE]
        /\ isLeader = [t \in Tabs |-> t = "A" \/ (t = "C" /\ second)]
        /\ isExplicitlyClosed = [t \in Tabs |-> FALSE]
        /\ isCacheEnabled = [t \in Tabs |-> TRUE]
        /\ ws = [t \in Tabs |-> IF t = "A" THEN "OPEN"
                                ELSE IF t = "C" /\ second THEN "CONNECTING" ELSE "null"]
        /\ wsStatus = [t \in Tabs |-> IF t = "A" THEN "connected"
                                ELSE IF t = "C" /\ second THEN "connecting" ELSE "disconnected"]
        /\ closing = [t \in Tabs |-> 0]
        /\ synced = [t \in Tabs |-> t = "A"]
        /\ disconnected = [t \in Tabs |-> FALSE]
        /\ online = TRUE
        /\ enableCacheBeforeSocket = TRUE
        /\ lsLeader = IF second THEN "C" ELSE "A"
        /\ lsFresh = TRUE
        /\ lastLeaderHeartbeat = [t \in Tabs |-> IF t = "B" \/ (t = "C" /\ ~second)
                                                    THEN "fresh" ELSE "zero"]
        /\ pendingLeaderCheck = [t \in Tabs |-> FALSE]
        /\ electionTimers = [t \in Tabs |-> <<>>]
        /\ leaderCheckInterval = [t \in Tabs |-> t = "A" \/ (t = "C" /\ second)]
        /\ followerCheckInterval = [t \in Tabs |-> t = "B" \/ (t = "C" /\ ~second)]
        /\ reconnectTimeout = [t \in Tabs |-> 0]
        /\ reconnectAttempts = [t \in Tabs |-> 0]

NextNotify ==
    \/ DeltaNotify("A", "X")
    \/ \E s \in Tabs, r \in Tabs : DeliverWsInvalidateNotify(s, r)
    \/ \E s \in Tabs, r \in Tabs : CacheDeliver(s, r)
    \/ \E i \in 1..MaxPolls : PollCheck("B", i)
    \/ PollTick
    \/ FocusChange("B")
    \/ CMSet("B", "Y", "k1", "b", 1, 1)
    \/ CMSetDone("B")

SpecNotify == InitNotify /\ [][NextNotify]_vars

\* Upstream: the follower B calls send() once, while tab A leads and tab C
\* either follows or is a second leader whose socket is opening; the
\* leaders' pings end the overlap.
SendOnce(t, data) == lastSend[t] = NoSend /\ Send(t, data)

NextUpstream ==
    \/ \E data \in SendData : SendOnce("B", data)
    \/ \E r \in {"A", "C"} : DeliverWsUpstream("B", r)
    \/ OnOpen("C")
    \/ \E t \in {"A", "C"} : LeaderPing(t)
    \/ \E s \in {"A", "C"}, r \in Tabs : DeliverLeaderClaim(s, r)

SpecUpstream == InitNotify /\ [][NextUpstream]_vars

\* Every notification begun in a tab has either run the callbacks once or
\* is still polling, and a poll is re-armed only while less than maxWait
\* has elapsed.
PollOnce ==
    \A t \in Tabs :
        /\ Len(cbFired[t]) + Len(polls[t]) = started[t]
        /\ \A i \in 1..Len(polls[t]) :
            polls[t][i].timer > 0 => polls[t][i].elapsed < MaxWait + PollInterval

\* C17: the callbacks of a notification run exactly once, at once in a
\* focused tab and otherwise by the poll, which stops when it has run them;
\* every poll ends, and none is re-armed once maxWait has elapsed.
C17_PollDeliversOnce ==
    /\ []PollOnce
    /\ [][\A t \in Tabs : (focused[t] /\ started'[t] > started[t])
                => (cbFired'[t] = Append(cbFired[t], "immediate")
                    /\ polls'[t] = polls[t])]_vars
    /\ [][\A t \in Tabs, i \in 1..MaxPolls :
            (PollCheck(t, i) /\ polls[t][i].elapsed >= MaxWait)
                => Len(polls'[t]) = Len(polls[t]) - 1]_vars
    /\ \A t \in Tabs : (polls[t] # <<>>) ~> (polls[t] = <<>>)

\* Tab B has run the callbacks of two notifications from polls, once
\* because find returned data and once because maxWait had elapsed, and
\* the focused tab A has run its callbacks at once; nothing is polling.
C17_Witness ==
    /\ cbFired["B"] \in {<<"found", "timeout">>, <<"timeout", "found">>}
    /\ cbFired["A"] = <<"immediate", "immediate">>
    /\ polls["B"] = <<>>

InitStartup ==
    /\ InitCacheWith(TRUE)
    /\ InitRunning({"A"})
    /\ configEnabled = TRUE
    /\ cacheWritesOffline = FALSE

NextStartup ==
    \/ \E c \in Callers : FetchCall("A", c, "X", "k1", 1, FALSE)
    \/ \E c \in Callers : FetchCallWait("A", c, "X", "k1", 1, FALSE)
    \/ \E c \in Callers, connected \in BOOLEAN : WaitForConnectionDone("A", c, connected)
    \/ \E c \in Callers : FetchLookup("A", c)
    \/ \E id \in 1..MaxReq, ts \in Timestamps : HttpOk(id, "a", ts)
    \/ \E id \in 1..MaxReq : TsWriteDone(id)
    \/ \E id \in 1..MaxReq : CacheWriteDone(id)
    \/ NetworkFlips
    \/ HandleNetworkOffline("A")
    \/ HandleNetworkOnline("A")
    \/ OnOpen("A")
    \/ OnClose("A")
    \/ OnCloseStale("A")
    \/ FullSync("A", XOnly)

SpecStartup == InitStartup /\ [][NextStartup]_vars

\* C16: a fetch that starts the startup wait for the socket is the first
\* fetch of its client: no other fetch has been called in the tab before.
C16_OnlyFirstFetchWaits ==
    [][\A t \in Tabs, c \in Callers :
        (calls[t][c].pc = "idle" /\ calls'[t][c].pc = "sockwait")
        => \A c2 \in Callers \ {c} : calls[t][c2].pc = "idle"]_vars

NextToggle ==
    \/ \E t \in CoordTabs : SetEnabledOff(t)
    \/ \E t \in CoordTabs : HeartbeatAge(t)
    \/ \E t \in CoordTabs : FollowerCheck(t)
    \/ \E t \in CoordTabs : ElectionTimeout(t)
    \/ \E t \in CoordTabs : OnOpen(t)
    \/ \E t \in CoordTabs : OnCloseStale(t)
    \/ \E t \in CoordTabs : FullSync(t, XOnly)
    \/ \E s \in CoordTabs, r \in CoordTabs : CacheDeliver(s, r)
    \/ \E s \in CoordTabs, r \in CoordTabs : DeliverWsInvalidate(s, r)
    \/ \E s \in CoordTabs, r \in CoordTabs : DeliverLeaderClaim(s, r)
    \/ \E s \in CoordTabs, r \in CoordTabs : DeliverLeaderQuery(s, r)
    \/ \E s \in CoordTabs, r \in CoordTabs : DeliverWsCacheEnabled(s, r)

SpecToggle == InitStore /\ [][NextToggle]_vars

\* No message is in flight and no close event is outstanding.
Quiet ==
    /\ \A s \in Tabs, r \in Tabs : chan[s][r] = <<>>
    /\ \A t \in Tabs : closing[t] = 0

\* C18: once some tab has called setEnabled(false) and every message and
\* close event has been handled, no tab holds a socket and caching is
\* disabled in every tab.
C18_ToggleOffEverywhere ==
    ((\E t \in Tabs : disconnected[t]) /\ Quiet)
        => \A t \in Tabs :
            alive[t] => (ws[t] = "null" /\ ~isCacheEnabled[t])

\* C21: after cache.invalidate(bucket) the bucket is absent from the tab's
\* memory and from the cache store, whether or not it was in memory, and
\* one cache-invalidate message has been posted to every peer.
C21_InvalidateDeletesEverywhere ==
    [][\A t \in Tabs, b \in Buckets :
        CMInvalidate(t, b)
        => /\ b \notin memHas'[t]
           /\ psCache'[b] = EmptyBucket
           /\ \A r \in Peers(t) :
                chan'[t][r] = Append(chan[t][r], CacheInvalidateMsg(b))]_vars

\* C22: in every tab, between event handlers, a socket that is not null
\* belongs to the leader: only a leader creates one, and a tab that steps
\* down releases its socket in the same handler.
C22_SocketOnlyInLeader ==
    \A t \in Tabs : ws[t] # "null" => alive[t] /\ isLeader[t]

\* Tab A has led with a socket and has released it on stepping down, without
\* disconnect() being in force; tab B leads with an open socket.
C22_Witness ==
    /\ ~isLeader["A"] /\ ~isExplicitlyClosed["A"]
    /\ ws["A"] = "null" /\ closing["A"] > 0
    /\ isLeader["B"] /\ ws["B"] = "OPEN"

\* C11: once the offline handler of a leader has closed its open socket and
\* that socket's close event has been handled, and until the online event
\* is handled, the tab has no socket, wsStatus is 'offline', the cache is
\* disabled and no reconnect is scheduled.
C11_OfflineState ==
    \A t \in Tabs :
        (alive[t] /\ offlineClosed[t] /\ closing[t] = 0)
            => /\ ws[t] = "null"
               /\ wsStatus[t] = "offline"
               /\ ~isCacheEnabled[t]
               /\ reconnectTimeout[t] = 0

Leaders == {t \in Tabs : alive[t] /\ isLeader[t]}

\* Availability: tab A leads and tab B follows, both after connect().  Tab A
\* may call disconnect(), call connect() again, or close; heartbeats may be
\* late, so that a tab may elect itself while the other leads and the two
\* step down for each other.  Tab B stays open and is never disconnected.
NextAvail ==
    \/ Unload("A")
    \/ Disconnect("A")
    \/ Connect("A")
    \/ \E t \in CoordTabs : LeaderPing(t)
    \/ \E t \in CoordTabs : FollowerCheck(t)
    \/ \E t \in CoordTabs : HeartbeatAge(t)
    \/ StorageAge
    \/ \E t \in CoordTabs : ElectionTimeout(t)
    \/ \E s \in CoordTabs, r \in CoordTabs : HandoffDeliver(s, r)

SpecAvail == InitStore /\ [][NextAvail]_vars

\* While no tab leads, nobody posts leader-claim or refreshes the slot, so
\* the last heartbeat a follower has seen and the stored heartbeat grow
\* older than LEADER_TIMEOUT.
LeaderlessAge(t) == Leaders = {} /\ HeartbeatAge(t)
LeaderlessStorageAge == Leaders = {} /\ StorageAge

\* The 2 s intervals and the 150 ms timers of a tab fire, posted messages
\* are delivered, and time passes.  The fairness of the handlers that post
\* is strong because the bounded queues of their tab hold them back while
\* full.
FairAvail ==
    /\ \A t \in CoordTabs :
        /\ SF_vars(ElectionTimeout(t))
        /\ SF_vars(FollowerCheck(t))
        /\ WF_vars(LeaderlessAge(t))
        /\ \A s \in CoordTabs \ {t} : SF_vars(HandoffDeliver(s, t))
    /\ WF_vars(LeaderlessStorageAge)

SpecAvailFair == SpecAvail /\ FairAvail

\* Tab t follows another tab's claim: it is not the leader, monitors the
\* leader's heartbeat, and the application has not disconnected it.
FollowsClaim(t) ==
    /\ alive[t] /\ ~isLeader[t] /\ ~isExplicitlyClosed[t]
    /\ ~pendingLeaderCheck[t]
    /\ followerCheckInterval[t] /\ lastLeaderHeartbeat[t] = "fresh"

\* C23: when two tabs lead at once and each is sent the other's
\* leader-claim, the tab that handles a claim first steps down and the other
\* keeps leadership when the loser's claim reaches it, so that one of the
\* two leads afterwards.
C23_RaceLeavesOneLeader ==
    [][\A s \in Tabs, r \in Tabs :
        (s # r /\ isLeader[r] /\ FollowsClaim(s) /\ DeliverLeaderClaim(s, r))
        => isLeader'[r]]_vars

\* The election wait of tab t ends well: no leader-claim of another tab has
\* cleared pendingLeaderCheck, and the shared slot does not name another tab
\* with a heartbeat younger than LEADER_TIMEOUT.
QuietWait(t) ==
    /\ pendingLeaderCheck[t]
    /\ ~(lsLeader # NoTab /\ lsLeader # t /\ lsFresh)

\* C24: a tab takes the leader role only when its election timer fires
\* after a wait during which no leader-claim of another tab arrived and with
\* the shared slot naming no other tab with a recent heartbeat; when the
\* timer fires otherwise, the tab does not take the role (it follows, if the
\* election was still pending), and it neither writes the shared slot, nor
\* posts leader-claim or anything else, nor touches its socket.
C24_LeaderOnlyAfterQuietWait ==
    [][\A t \in Tabs :
        /\ (~isLeader[t] /\ isLeader'[t])
            => /\ QuietWait(t)
               /\ electionTimers[t] # <<>>
               /\ electionTimers'[t] = Tail(electionTimers[t])
        /\ (ElectionTimeout(t) /\ ~QuietWait(t))
            => /\ isLeader'[t] = isLeader[t]
               /\ pendingLeaderCheck[t]
                    => ~isLeader'[t] /\ followerCheckInterval'[t]
               /\ lsLeader' = lsLeader /\ lsFresh' = lsFresh
               /\ chan'[t] = chan[t]
               /\ ws'[t] = ws[t]]_vars

\* Tab A's election timer has fired after a quiet wait: A leads, has written
\* the slot and created its socket.  Tab B's election is pending and its
\* timer will fire with the slot naming A, whose heartbeat is recent.
C24_Witness ==
    /\ isLeader["A"] /\ lsLeader = "A" /\ lsFresh /\ ws["A"] # "null"
    /\ ~isLeader["B"] /\ pendingLeaderCheck["B"] /\ electionTimers["B"] # <<>>
    /\ ws["B"] = "null"

MinOf(a, b) == IF a <= b THEN a ELSE b

\* C25: a reconnect scheduled with reconnectAttempts = n is due after
\* min(5000 + floor(n / 4) * 5000, 20000) ms, which is at most 20000 and at
\* least the delay of every smaller n, and the scheduling adds one to
\* reconnectAttempts; onopen resets the counter to 0, and so does the online
\* handler of a leader.
C25_Backoff ==
    [][\A t \in Tabs :
        LET n == reconnectAttempts[t] IN
        /\ (ScheduleReconnect(t) /\ Schedules(t, isCacheEnabled[t]))
            => /\ reconnectTimeout'[t] = MinOf(5000 + (n \div 4) * 5000, 20000)
               /\ reconnectTimeout'[t] <= 20000
               /\ \A m \in 0..n : ReconnectDelay(m) <= reconnectTimeout'[t]
               /\ reconnectAttempts'[t] = n + 1
        /\ OnOpen(t) => reconnectAttempts'[t] = 0
        /\ (HandleNetworkOnline(t) /\ isLeader[t]) => reconnectAttempts'[t] = 0]_vars

\* The seventeenth reconnect of tab A has been scheduled, at the capped
\* delay.
C25_Witness ==
    /\ reconnectAttempts["A"] = MaxAttempts
    /\ reconnectTimeout["A"] = 20000

\* C26: cache.get(bucket, key) returns the data of an entry only if the
\* entry, found in the tab's memory or else in the store, has not passed its
\* expiry; a get that finds an entry with now > expiry leaves no entry for
\* the key in the tab's memory and returns null.
C26_NoExpiredData ==
    [][\A t \in Tabs, b \in Buckets, k \in Keys :
        CMGet(t, b, k) =>
            LET inMem == b \in memHas[t] /\ memEnt[t][b][k] # NoEntry
                item == IF inMem THEN memEnt[t][b][k] ELSE psCache[b][k]
            IN
            /\ (item # NoEntry /\ now > item.expiry)
                => /\ got'[t].data = "null"
                   /\ memEnt'[t][b][k] = NoEntry
            /\ got'[t].data # "null"
                => /\ got'[t].data = item.data
                   /\ now <= item.expiry]_vars

\* Tab A's get has missed on an entry that tab B wrote and that expired in
\* the store, without ever being in A's memory.
C26_Witness ==
    /\ got["A"] # NoGet /\ got["A"].data = "null"
    /\ psCache["X"]["k1"] # NoEntry /\ now > psCache["X"]["k1"].expiry
    /\ memEnt["A"]["X"]["k1"] = NoEntry
    /\ chan["B"]["A"] # <<>> /\ Head(chan["B"]["A"]).type = "cache-set"

\* Tab A's get has missed on an expired entry of its memory and evicted it.
C26_MemoryEvicted ==
    /\ got["A"] # NoGet /\ got["A"].data = "null"
    /\ memEnt["A"]["X"]["k1"] = NoEntry
    /\ memEnt["B"]["X"]["k1"] # NoEntry /\ now > memEnt["B"]["X"]["k1"].expiry
    /\ \A s \in Tabs, r \in Tabs : chan[s][r] = <<>>
    /\ setPending = [t \in Tabs |-> <<>>]

\* C27: a tab that handles a cache-set of a peer stores the entry in its
\* memory unless the entry it holds has a higher timestamp, a tab that
\* handles a cache-invalidate drops the bucket from its memory, and neither
\* posts anything: the only change to the channel is that the handled
\* message leaves its queue.  One cache.set and one cache.invalidate each put
\* one message in the queue of every peer.
C27_AppliedNotRebroadcast ==
    [][/\ \A s \in Tabs, r \in Tabs :
            CacheDeliver(s, r) =>
                LET m == Head(chan[s][r])
                    cur == memEnt[r][m.bucket][m.key]
                IN
                /\ chan' = [chan EXCEPT ![s][r] = Tail(@)]
                /\ m.type = "cache-set"
                    => memEnt'[r][m.bucket][m.key] =
                        IF cur = NoEntry \/ GeJS(m.ent.timestamp, cur.timestamp)
                            THEN m.ent ELSE cur
                /\ m.type = "cache-invalidate" => m.bucket \notin memHas'[r]
       /\ \A t \in Tabs :
            (CMSetDone(t) \/ \E b \in Buckets : CMInvalidate(t, b))
            => \A x \in Tabs, y \in Tabs :
                Len(chan'[x][y]) =
                    Len(chan[x][y]) + IF x = t /\ y \in Peers(t) THEN 1 ELSE 0]_vars

\* Tabs B and C have both handled the cache-set of tab A's entry, which is in
\* their memories, and no message is left in any queue.
C27_Witness ==
    /\ memEnt["A"]["X"]["k1"] # NoEntry
    /\ memEnt["B"]["X"]["k1"] = memEnt["A"]["X"]["k1"]
    /\ memEnt["C"]["X"]["k1"] = memEnt["A"]["X"]["k1"]
    /\ setPending["A"] = <<>>
    /\ \A s \in Tabs, r \in Tabs : chan[s][r] = <<>>

\* Bucket u is as it was in every tab's memory and in the store, and no tab
\* is notified of an invalidation of u.
BucketUntouched(u) ==
    /\ \A x \in Tabs :
        /\ memEnt'[x][u] = memEnt[x][u]
        /\ (u \in memHas'[x]) = (u \in memHas[x])
        /\ notified'[x][u] = notified[x][u]
    /\ psCache'[u] = psCache[u]

\* C28: the leader's handling of a delta that lists bucket b drops b from
\* the leader's memory and notifies its subscribers of b, and leaves every
\* other bucket as it was in memory and in the store, with no subscriber of
\* another bucket notified; a follower that handles the resulting
\* ws-invalidate notifies the subscribers of b only and changes no cache.
C28_DeltaTouchesListedOnly ==
    [][/\ \A t \in Tabs, b \in Buckets :
            Delta(t, b) =>
                /\ b \notin memHas'[t]
                /\ notified'[t][b] = invEpoch'[b]
                /\ \A u \in Buckets \ {b} : BucketUntouched(u)
       /\ \A s \in Tabs, r \in Tabs :
            DeliverWsInvalidate(s, r) =>
                /\ \A u \in Buckets \ {Head(chan[s][r]).bucket} : BucketUntouched(u)
                /\ UNCHANGED <<memEnt, memHas, psCache>>]_vars

\* The leader has handled a delta for X while it held Y in memory and in the
\* store: X is gone from its memory and from the store, Y is in both.
C28_Witness ==
    /\ invEpoch["X"] > 0 /\ invEpoch["Y"] = 0
    /\ notified["A"]["X"] = invEpoch["X"]
    /\ "X" \notin memHas["A"] /\ psCache["X"] = EmptyBucket
    /\ memEnt["A"]["Y"]["k1"] # NoEntry /\ psCache["Y"]["k1"] # NoEntry
    /\ memEnt["B"]["X"]["k1"] # NoEntry

\* C29: the leader's handling of a full sync with an empty payload empties
\* its memory, the cache store and the timestamp store, posts
\* ws-invalidate-all to every peer, runs its global-invalidation callbacks,
\* and enables the cache (with the ws-cache-enabled broadcast) only if the
\* tab is not explicitly closed; a follower that handles ws-invalidate-all
\* empties its memory and runs its global callbacks and the callbacks of
\* every key.
C29_EmptyFullSyncPurges ==
    [][/\ \A t \in Tabs :
            FullSyncEmpty(t) =>
                /\ memHas'[t] = {}
                /\ memEnt'[t] = [b \in Buckets |-> EmptyBucket]
                /\ psCache' = [b \in Buckets |-> EmptyBucket]
                /\ psTs' = [b \in Buckets |-> NoTs]
                /\ \A r \in Peers(t) :
                    chan'[t][r] = chan[t][r]
                        \o <<WsInvalidateAllMsg(invEpoch')>>
                        \o (IF isExplicitlyClosed[t] THEN <<>>
                            ELSE <<WsCacheEnabledMsg(TRUE, FALSE)>>)
                /\ globalFired'[t] = globalFired[t] + 1
                /\ isCacheEnabled'[t] =
                        IF isExplicitlyClosed[t] THEN isCacheEnabled[t] ELSE TRUE
       /\ \A s \in Tabs, r \in Tabs :
            (DeliverWsInvalidateAll(s, r) /\ ~isLeader[r]) =>
                /\ memHas'[r] = {}
                /\ memEnt'[r] = [b \in Buckets |-> EmptyBucket]
                /\ globalFired'[r] = globalFired[r] + 1
                /\ notified'[r] = Head(chan[s][r]).eps]_vars

\* The leader has purged and both followers have handled ws-invalidate-all:
\* nothing is cached anywhere, every tab has run its global callbacks, and
\* the followers' subscribers of X have been told.
C29_Witness ==
    /\ invEpoch["X"] > 0
    /\ \A t \in Tabs : globalFired[t] > 0 /\ memHas[t] = {}
    /\ psCache = [b \in Buckets |-> EmptyBucket]
    /\ notified["B"]["X"] = invEpoch["X"] /\ notified["C"]["X"] = invEpoch["X"]
    /\ calls["B"]["c1"].pc = "done"
    /\ ~isExplicitlyClosed["A"]

\* The explicitly closed leader has purged without enabling the cache.
C29_ClosedPurge ==
    /\ isExplicitlyClosed["A"] /\ globalFired["A"] > 0
    /\ \A r \in Tabs \ {"A"} : chan["A"][r] # <<>>
        /\ \A i \in 1..Len(chan["A"][r]) : chan["A"][r][i].type # "ws-cache-enabled"

\* C30: when disconnect() has run in a leader, the tab is explicitly
\* closed and no longer leads, its socket is closed and this.ws is null,
\* its leader interval and its reconnect timer are cleared, and the shared
\* slot does not name the tab.
C30_DisconnectReleases ==
    [][\A t \in Tabs :
        (DisconnectCall(t) /\ isLeader[t])
        => /\ isExplicitlyClosed'[t]
           /\ ~isLeader'[t]
           /\ ws'[t] = "null"
           /\ ws[t] \in {"OPEN", "CONNECTING"} => closing'[t] > 0
           /\ ~leaderCheckInterval'[t]
           /\ reconnectTimeout'[t] = 0
           /\ lsLeader' # t]_vars

\* Tab A was disconnected while it led with a live socket: the socket is
\* closed, the slot is empty, no timer is left.
C30_Witness ==
    /\ disconnected["A"] /\ isExplicitlyClosed["A"] /\ ~isLeader["A"]
    /\ ws["A"] = "null" /\ closing["A"] > 0
    /\ ~leaderCheckInterval["A"] /\ reconnectTimeout["A"] = 0
    /\ lsLeader = NoTab /\ reconnectAttempts["A"] = MaxAttempts

\* A step that takes a ws-invalidate message from the queue of s to r.
WsInvalidateTaken(s, r) ==
    /\ chan[s][r] # <<>>
    /\ Head(chan[s][r]).type = "ws-invalidate"
    /\ chan'[s][r] = Tail(chan[s][r])

\* C31: a follower that handles ws-invalidate for a key leaves the memory
\* of its cache and the store as they are and notifies only the subscribers
\* of that key, at once when the tab has focus and by starting a background
\* poll for the key otherwise; a leader does nothing with the message.
C31_FollowerOnlyNotifies ==
    [][\A s \in Tabs, r \in Tabs : WsInvalidateTaken(s, r) =>
        /\ memHas' = memHas /\ memEnt' = memEnt
        /\ psCache' = psCache /\ psTs' = psTs
        /\ \A t \in Tabs \ {r} :
            notified'[t] = notified[t] /\ polls'[t] = polls[t] /\ cbFired'[t] = cbFired[t]
        /\ \A u \in Buckets \ {Head(chan[s][r]).bucket} : notified'[r][u] = notified[r][u]
        /\ IF isLeader[r]
            THEN notified'[r] = notified[r] /\ polls'[r] = polls[r]
                 /\ cbFired'[r] = cbFired[r]
            ELSE IF focused[r]
                THEN /\ notified'[r][Head(chan[s][r]).bucket] = Head(chan[s][r]).ep
                     /\ cbFired'[r] = Append(cbFired[r], "immediate")
                     /\ polls'[r] = polls[r]
                ELSE /\ Len(polls'[r]) = Len(polls[r]) + 1
                     /\ polls'[r][Len(polls'[r])].bucket = Head(chan[s][r]).bucket
                     /\ polls'[r][Len(polls'[r])].elapsed = 0
                     /\ \A i \in 1..Len(polls[r]) : polls'[r][i] = polls[r][i]
                     /\ cbFired'[r] = cbFired[r]
                     /\ notified'[r] = notified[r]]_vars

\* An unfocused follower whose cache holds an entry has just started a poll
\* for the key of a ws-invalidate message, and has run no callback.
C31_Witness ==
    /\ ~isLeader["B"] /\ ~focused["B"]
    /\ Len(polls["B"]) = 1 /\ polls["B"][1].elapsed = 0
    /\ polls["B"][1].bucket = "X"
    /\ cbFired["B"] = <<>>
    /\ "Y" \in memHas["B"] /\ memEnt["B"]["Y"]["k1"] # NoEntry
    /\ psCache["Y"]["k1"] # NoEntry
    /\ setPending["B"] = <<>>

\* Every cache-set and cache-invalidate broadcast has been delivered and no
\* cache.set is awaiting its store write.
CacheQuiet ==
    /\ \A s \in Tabs, r \in Tabs : chan[s][r] = <<>>
    /\ \A t \in Tabs : setPending[t] = <<>>

\* C32: cross-tab convergence.  Once every cache-set and cache-invalidate
\* broadcast has been delivered, any two tabs whose memory holds an entry
\* for the same bucket and key hold the same entry.
C32_TabsConverge ==
    CacheQuiet =>
        \A t \in Tabs, u \in Tabs, b \in Buckets, k \in Keys :
            (memEnt[t][b][k] # NoEntry /\ memEnt[u][b][k] # NoEntry)
                => memEnt[t][b][k] = memEnt[u][b][k]

\* The request r was in flight when an invalidation of its bucket was
\* applied in its tab: a caller awaiting it began before the notification.
InvalidatedSince(r) ==
    \E c \in Callers :
        /\ calls[r.tab][c].pc = "wait"
        /\ calls[r.tab][c].rid = r.id
        /\ notified[r.tab][r.bucket] > calls[r.tab][c].notif

\* C33: once an invalidation of a bucket has been applied in a tab, the
\* write-back of a fetch that was in flight and whose server timestamp is
\* lower than that of the invalidation puts no entry into the bucket,
\* neither in the tab's memory nor in the store.
C33_StaleWriteBackDropped ==
    [][\A id \in 1..MaxReq :
        (/\ TsWriteDone(id)
         /\ InvalidatedSince(ReqOf(id))
         /\ ReqOf(id).ts < DeltaTs)
        => /\ memEnt'[ReqOf(id).tab][ReqOf(id).bucket] = memEnt[ReqOf(id).tab][ReqOf(id).bucket]
           /\ psCache'[ReqOf(id).bucket] = psCache[ReqOf(id).bucket]]_vars

\* C34: from disconnect() until the next connect() of the same tab, whatever
\* messages arrive and whatever timers fire, the tab stays explicitly
\* closed, is not leader, is not named by the shared slot and holds no
\* upstream socket.
C34_DisconnectedStaysOut ==
    \A t \in Tabs :
        disconnected[t] =>
            /\ isExplicitlyClosed[t]
            /\ ~isLeader[t]
            /\ lsLeader # t
            /\ ws[t] = "null"

\* C36: broadcast order follows local order.  Where tab A alone writes and
\* invalidates a bucket, a cache-set never reaches a peer after a
\* cache-invalidate that A applied later: once every message is delivered,
\* no peer holds in memory an entry that A has invalidated.
C36_PeersFollowLocalOrder ==
    CacheQuiet =>
        \A k \in Keys :
            memEnt["B"]["X"][k] # NoEntry => memEnt["A"]["X"][k] # NoEntry

\* C37: in a leader, wsStatus and the cache switch reflect the current
\* socket only: whenever the tab's current socket is open, wsStatus is
\* 'connected', and the close event of a socket that the tab has replaced
\* changes neither wsStatus nor isCacheEnabled and schedules no reconnect.
C37_StatusOfCurrentSocket ==
    /\ [](\A t \in Tabs : (isLeader[t] /\ ws[t] = "OPEN") => wsStatus[t] = "connected")
    /\ [][\A t \in Tabs :
            (isLeader[t] /\ ws[t] \in {"CONNECTING", "OPEN"} /\ closing'[t] < closing[t])
                => /\ wsStatus'[t] = wsStatus[t]
                   /\ isCacheEnabled'[t] = isCacheEnabled[t]
                   /\ reconnectTimeout'[t] = reconnectTimeout[t]]_vars

\* The promise registered for key k in tab t has not settled.
Unsettled(t, k) ==
    \E r \in reqs : /\ r.id = pendingFetches[t][k]
                    /\ r.st \in {"http", "tsWrite", "cacheWrite"}

\* C38: pendingFetches holds an entry for a key only while the fetch of that
\* key is outstanding: once it has settled, by success or by failure, also
\* by a failure raised before the request is awaited, the map has no entry
\* for the key.
C38_PendingOnlyWhileOutstanding ==
    \A t \in Tabs, k \in Keys : pendingFetches[t][k] # 0 => Unsettled(t, k)

\* The tabs that have written a payload received in ws-upstream to their
\* socket.
UpstreamWriters ==
    {t \in Tabs : lastSend[t].outcome = "written" /\ lastSend[t].via = "ws-upstream"}

\* C39: a payload passed to send() in a follower is written to an upstream
\* socket at most once across all tabs.  Where one follower calls send()
\* once, at most one tab writes the payload.
C39_WrittenAtMostOnce == Cardinality(UpstreamWriters) <= 1

\* C40: leader availability.  While some tab that has called connect() is
\* open and not disconnected, a state without a leader is always followed
\* by a state in which some open tab is Leader: after the leader's tab
\* closes, after the leader calls disconnect(), and after two leaders have
\* stepped down for each other, provided the timers fire and the posted
\* messages are delivered.
C40_LeaderAgain ==
    (Leaders = {} /\ \E t \in Tabs : alive[t] /\ ~disconnected[t])
        ~> (Leaders # {})

\* Tab A has closed and tab B, a follower at first, leads and has written
\* the slot.
C40_Witness ==
    /\ ~alive["A"]
    /\ alive["B"] /\ isLeader["B"] /\ ~disconnected["B"]
    /\ lsLeader = "B"

\* C35: every connect() call resolves its promise.  The promise of an
\* election wait can be resolved by the wait's own timer or, before the
\* timer fires, by the leader-claim handler; once the timer has fired
\* nothing holds its resolver any more.  So whenever the timer of a wait
\* that connect() awaits fires, the promise is resolved already or the
\* timer resolves it (the election is still pending).
C35_ConnectResolves ==
    [][\A t \in Tabs :
        (/\ alive[t] /\ alive'[t]
         /\ electionTimers[t] # <<>>
         /\ electionTimers'[t] = Tail(electionTimers[t]))
            => (Head(electionTimers[t]).awaited
                    => \/ Head(electionTimers[t]).resolved
                       \/ pendingLeaderCheck[t])]_vars

\* C8: once the leader's tab has posted leader-stepdown, cleared the slot
\* and gone, at most one of the followers is leader, and a follower that has
\* become leader has opened the upstream socket (becomeLeader connects in
\* the handler that takes the role).
C8_LeaderOpensSocket ==
    ~alive["A"] =>
        /\ Cardinality(Leaders) <= 1
        /\ \A t \in Leaders : ws[t] \in {"CONNECTING", "OPEN"}

\* C8, as a liveness property: after the leader's tab is gone, eventually
\* exactly one follower is leader with its socket open, for good.
C8_Handoff ==
    [](~alive["A"] =>
            <>[](\E t \in Tabs : Leaders = {t} /\ OpenSockets = {t}))
====
